---- MODULE Spec2Model ----
(***************************************************************************)
(* A model of multiversum's orchestration engine: grid generation with     *)
(* constraints (helpers.py), universe identity, the run counter, the       *)
(* fan-out of visits, aggregation and reconciliation (multiverse.py), and   *)
(* the command line (__main__.py).                                         *)
(*                                                                         *)
(* Python values are modelled as records [kind, elems]: the scalar n is    *)
(* [kind |-> "scalar", elems |-> <<n>>], a list has kind "list" and a      *)
(* tuple kind "tuple", so that record equality is Python's ==: a list      *)
(* never equals a tuple, and neither equals a scalar.  A dict is the       *)
(* sequence of its items [key, value] in insertion order; Python compares  *)
(* dicts without regard to that order (DictEq).                            *)
(***************************************************************************)
EXTENDS Integers, Sequences, FiniteSets, TLC

VARIABLES
    phase,               \* the operation that ran last
    dimensions,          \* the dimensions dict given to generate_multiverse_grid
    constraints,         \* the constraints given to it (<<>>: None or empty)
    grid,                \* its outcome: [ok, value, error]
    self,                \* the MultiverseAnalysis instance asked for an ID
    universe_parameters, \* the mapping given to generate_universe_id
    universe_id,         \* the ID it returned
    counter_txt,         \* <output_dir>/counter.txt: [exists, text]
    counter0,            \* counter.txt as the first invocation found it
    history,             \* the invocations completed so far, in order
    proc,                \* the invocations in progress: [pc, increment, run_no]
    files,               \* the files under <output_dir>/runs
    dirs,                \* the directories under <output_dir> that exist
    batch,               \* the examine_multiverse call in progress or last made
    missing_info,        \* what check_missing_universes last returned
    visited,             \* the IDs of the universes this analysis visited
    calls,               \* the batches and the single visits it was asked for
    visiting,            \* the universe of the visit_universe call in progress, if any
    produced,            \* the IDs whose artifact this analysis wrote and still stands
    deleted,             \* the IDs whose artifact was deleted and not rewritten
    run_was_empty,       \* the run held no artifact when the analysis was built
    aggregated,          \* what aggregate_data last returned
    mode,                \* the mode the command line was called with
    options,             \* the other parameters it was called with
    results_before,      \* the IDs the run held results of when the command line began
    frame,               \* the frame an executor hands to add_universe_info_to_df
    info_args,           \* the other arguments of that call
    data_info            \* what add_universe_info_to_df returned

gridVars == <<phase, dimensions, constraints, grid, self, universe_parameters, universe_id>>
counterVars == <<counter_txt, counter0, history, proc>>

runVars == <<files, dirs, batch, missing_info, visited, calls, visiting, produced, deleted,
            run_was_empty>>

cliVars == <<aggregated, mode, options, results_before>>

frameVars == <<frame, info_args, data_info>>

vars == <<gridVars, counterVars, runVars, cliVars, frameVars>>

-----------------------------------------------------------------------------
(* Bounds of the model. *)

\* The sum of the option counts over the dimensions of one configuration.
MaxTotalOptions == 4

\* The number of constraints one constraints mapping holds.
MaxConstraints == 2

\* The largest number counter.txt may hold when the first invocation starts.
MaxInitialCounter == 10

\* The number of invocations against one output root.
MaxInvocations == 3

\* multiverse.py: DEFAULT_SEED
DEFAULT_SEED == 80539

\* The dimension names a configuration may declare.
DimensionNames == {"x", "y", "z"}

\* Every key the model uses, in the order Python sorts strings; "w" is a
\* dimension no configuration declares.
KeyOrder == <<"w", "x", "y", "z">>

\* The Python values 1, 2, [1] and (1,) an option may be.
OptionValues ==
    { [kind |-> "scalar", elems |-> <<1>>], [kind |-> "scalar", elems |-> <<2>>],
      [kind |-> "list", elems |-> <<1>>], [kind |-> "tuple", elems |-> <<1>>] }

-----------------------------------------------------------------------------
(* Python values, dicts and their equality. *)

Range(s) == {s[i] : i \in 1..Len(s)}

\* dict.keys(), in insertion order
Keys(d) == [i \in 1..Len(d) |-> d[i].key]

\* d[k], for a key the dict holds
Lookup(d, k) == d[CHOOSE i \in 1..Len(d) : d[i].key = k].value

\* Python's d1 == d2 on dicts: the same keys with equal values, in any order
DictEq(d1, d2) ==
    /\ Range(Keys(d1)) = Range(Keys(d2))
    /\ \A k \in Range(Keys(d1)) : Lookup(d1, k) = Lookup(d2, k)

\* the outcome of a call: a returned value, or the exception raised
Return(v) == [ok |-> TRUE, value |-> v, error |-> "none"]
Raise(e) == [ok |-> FALSE, value |-> <<>>, error |-> e]
NotCalled == [ok |-> FALSE, value |-> <<>>, error |-> "not called"]

-----------------------------------------------------------------------------
(* helpers.py: generate_multiverse_grid and apply_constraints *)

\* tuple(v) if isinstance(v, list) else v
values_conv_item(v) == IF v.kind = "list" THEN [kind |-> "tuple", elems |-> v.elems] ELSE v

\* [[tuple(v) if isinstance(v, list) else v for v in dim] for dim in values]
values_conv(values) ==
    [d \in 1..Len(values) |-> [i \in 1..Len(values[d]) |-> values_conv_item(values[d][i])]]

\* a check that compares every option with the next one only
has_duplicates_adjacent(dim) == \E i \in 1..(Len(dim) - 1) : dim[i] = dim[i + 1]

\* len(dim) != len(set(dim))
has_duplicates(dim) == Len(dim) # Cardinality(Range(dim))

\* a product in which the first pool varies fastest
product_step_first_fastest(result, pool) ==
    [n \in 1..(Len(result) * Len(pool)) |->
        Append(result[((n - 1) % Len(result)) + 1], pool[((n - 1) \div Len(result)) + 1])]

\* one round of itertools.product: [x + [y] for x in result for y in pool]
product_step(result, pool) ==
    [n \in 1..(Len(result) * Len(pool)) |->
        Append(result[((n - 1) \div Len(pool)) + 1], pool[((n - 1) % Len(pool)) + 1])]

\* itertools.product(*pools): result = [[]]; for pool in pools: result = step
RECURSIVE product_from(_, _, _)
product_from(result, pools, d) ==
    IF d > Len(pools) THEN result
    ELSE product_from(product_step(result, pools[d]), pools, d + 1)

product(pools) == product_from(<< <<>> >>, pools, 1)

\* dict(zip(keys, v))
dict_zip(keys, v) == [i \in 1..Len(keys) |-> [key |-> keys[i], value |-> v[i]]]

\* Python's None, as a value a mapping may hold
NoneValue == [kind |-> "none", elems |-> <<>>]

\* universe.get(key) != value: get gives None for a key the universe lacks
get_differs(universe, key, value) ==
    (IF key \in Range(Keys(universe)) THEN Lookup(universe, key) ELSE NoneValue) # value

\* an allowed_if that one matching pair satisfies
is_allowed_any_pair(universe, constraint) ==
    /\ constraint.has_allowed_if =>
          \/ constraint.allowed_if = <<>>
          \/ \E p \in 1..Len(constraint.allowed_if) :
                ~get_differs(universe, constraint.allowed_if[p].key, constraint.allowed_if[p].value)
    /\ constraint.has_forbidden_if =>
          \A p \in 1..Len(constraint.forbidden_if) :
             get_differs(universe, constraint.forbidden_if[p].key, constraint.forbidden_if[p].value)

\* apply_constraints.is_allowed
is_allowed(universe, constraint) ==
    /\ constraint.has_allowed_if =>
          \A p \in 1..Len(constraint.allowed_if) :
             ~get_differs(universe, constraint.allowed_if[p].key, constraint.allowed_if[p].value)
    /\ constraint.has_forbidden_if =>
          \A p \in 1..Len(constraint.forbidden_if) :
             get_differs(universe, constraint.forbidden_if[p].key, constraint.forbidden_if[p].value)

\* the loop over one dimension's constraints, from constraint c on:
\* "valid", "invalid" (the break), or "KeyError" from universe[dimension]
RECURSIVE dimension_loop(_, _, _, _)
dimension_loop(universe, dimension, dimension_constraints, c) ==
    IF c > Len(dimension_constraints) THEN "valid"
    ELSE IF dimension \notin Range(Keys(universe)) THEN "KeyError"
    ELSE IF /\ Lookup(universe, dimension) = dimension_constraints[c].value
            /\ ~is_allowed(universe, dimension_constraints[c])
         THEN "invalid"
    ELSE dimension_loop(universe, dimension, dimension_constraints, c + 1)

\* the loop over constraints.items(), from item d on
RECURSIVE constraints_loop(_, _, _)
constraints_loop(universe, cons, d) ==
    IF d > Len(cons) THEN "valid"
    ELSE LET r == dimension_loop(universe, cons[d].key, cons[d].value, 1)
         IN  IF r = "valid" THEN constraints_loop(universe, cons, d + 1) ELSE r

\* the loop over the grid, from universe n on, filtered_grid so far
RECURSIVE grid_loop(_, _, _, _)
grid_loop(multiverse_grid, cons, n, filtered_grid) ==
    IF n > Len(multiverse_grid) THEN Return(filtered_grid)
    ELSE LET r == constraints_loop(multiverse_grid[n], cons, 1)
         IN  IF r = "KeyError" THEN Raise("KeyError")
             ELSE grid_loop(multiverse_grid, cons, n + 1,
                            IF r = "valid" THEN Append(filtered_grid, multiverse_grid[n])
                            ELSE filtered_grid)

apply_constraints(multiverse_grid, cons) == grid_loop(multiverse_grid, cons, 1, <<>>)

\* a check that lets every mapping through
not_dimensions_never(dims) == FALSE

\* not dimensions: the mapping is empty
not_dimensions(dims) == dims = <<>>

\* generate_multiverse_grid(dimensions, constraints); cons = <<>> is None or {}
generate_multiverse_grid(dims, cons) ==
    IF not_dimensions(dims) THEN Raise("ValueError: No (or empty) dimensions provided.")
    ELSE
        LET keys == Keys(dims)
            values == [i \in 1..Len(dims) |-> dims[i].value]
            conv == values_conv(values)
        IN  IF \E d \in 1..Len(conv) : has_duplicates(conv[d])
            THEN Raise("ValueError: Dimensions must not contain duplicate values.")
            ELSE LET prod == product(conv)
                     multiverse_grid == [n \in 1..Len(prod) |-> dict_zip(keys, prod[n])]
                 IN  IF cons # <<>> THEN apply_constraints(multiverse_grid, cons)
                     ELSE Return(multiverse_grid)

-----------------------------------------------------------------------------
(* helpers.py and multiverse.py: generate_universe_id *)

KeyIndex(k) == CHOOSE i \in 1..Len(KeyOrder) : KeyOrder[i] = k

\* the items in insertion order: json.dumps without sort_keys
unsorted_items(d) == d

\* the items as json.dumps(sort_keys=True) writes them: sorted by key
sorted_items(d) ==
    [j \in 1..Len(d) |->
        d[CHOOSE i \in 1..Len(d) :
            Cardinality({m \in 1..Len(d) : KeyIndex(d[m].key) < KeyIndex(d[i].key)}) = j - 1]]

\* ", ".join(parts), as a sequence of tokens
RECURSIVE join(_)
join(parts) ==
    IF parts = <<>> THEN <<>>
    ELSE IF Len(parts) = 1 THEN parts[1]
    ELSE parts[1] \o <<", ">> \o join(Tail(parts))

\* a value written as str(v) writes it: a tuple in parentheses
dumps_value_str(v) ==
    IF v.kind = "scalar" THEN <<ToString(v.elems[1])>>
    ELSE <<(IF v.kind = "tuple" THEN "(" ELSE "[")>>
         \o [i \in 1..Len(v.elems) |-> ToString(v.elems[i])]
         \o <<(IF v.kind = "tuple" THEN ")" ELSE "]")>>

\* json.dumps of a value: a list and a tuple are both written as an array
dumps_value(v) ==
    IF v.kind = "scalar" THEN <<ToString(v.elems[1])>>
    ELSE <<"[">> \o join([i \in 1..Len(v.elems) |-> <<ToString(v.elems[i])>>]) \o <<"]">>

\* json.dumps(d, sort_keys=True), as a sequence of tokens
json_dumps(d) ==
    LET items == sorted_items(d)
    IN  <<"{">>
        \o join([i \in 1..Len(items) |->
                    <<"\"", items[i].key, "\"", ": ">> \o dumps_value(items[i].value)])
        \o <<"}">>

\* json.dump(d, fp): the items in insertion order
json_dump(d) ==
    <<"{">>
    \o join([i \in 1..Len(d) |->
                <<"\"", d[i].key, "\"", ": ">> \o dumps_value(d[i].value)])
    \o <<"}">>

\* the number a JSON number token stands for
loads_number(token) == CHOOSE n \in 0..9 : ToString(n) = token

\* json.load of an array's elements, from the token after "[" to "]"
RECURSIVE loads_elems(_, _, _)
loads_elems(text, pos, acc) ==
    IF text[pos] = "]" THEN [value |-> [kind |-> "list", elems |-> acc], next |-> pos + 1]
    ELSE IF text[pos] = ", " THEN loads_elems(text, pos + 1, acc)
    ELSE loads_elems(text, pos + 1, Append(acc, loads_number(text[pos])))

\* json.load of a value: an array is read as a list, a number as a number
loads_value(text, pos) ==
    IF text[pos] = "[" THEN loads_elems(text, pos + 1, <<>>)
    ELSE [value |-> [kind |-> "scalar", elems |-> <<loads_number(text[pos])>>], next |-> pos + 1]

\* json.load of an object's items, from the token after "{" to "}"
RECURSIVE loads_items(_, _, _)
loads_items(text, pos, acc) ==
    IF text[pos] = "}" THEN acc
    ELSE IF text[pos] = ", " THEN loads_items(text, pos + 1, acc)
    ELSE LET v == loads_value(text, pos + 4)
         IN  loads_items(text, v.next, Append(acc, [key |-> text[pos + 1], value |-> v.value]))

\* json.load(fp) of an object
json_load(text) == loads_items(text, 2, <<>>)

\* md5(text).hexdigest(): the digest stands for the text it was computed from
md5_hexdigest(text) == <<"md5(">> \o text \o <<")">>

\* helpers.py: generate_universe_id(universe_parameters)
generate_universe_id(params) == md5_hexdigest(json_dumps(params))

\* an ID that also names the run of the analysis
run_scoped_universe_id(mv, params) ==
    <<ToString(mv.run_no), "-">> \o md5_hexdigest(json_dumps(params))

\* multiverse.py: MultiverseAnalysis.generate_universe_id(self, universe_parameters)
MultiverseAnalysis_generate_universe_id(mv, params) == md5_hexdigest(json_dumps(params))

-----------------------------------------------------------------------------
(* multiverse.py: MultiverseAnalysis.read_counter.  counter.txt is         *)
(* [exists, text, dir]: whether it is a file, its text as a sequence of    *)
(* characters, and whether output_dir, the directory it is in, exists.     *)

Absent == [exists |-> FALSE, text |-> <<>>, dir |-> TRUE]
File(text) == [exists |-> TRUE, text |-> text, dir |-> TRUE]

\* no counter.txt, because there is no output_dir: __init__ stores the path
\* and never makes the directory
NoDirectory == [exists |-> FALSE, text |-> <<>>, dir |-> FALSE]

DigitChars == <<"0", "1", "2", "3", "4", "5", "6", "7", "8", "9">>

\* str(n), for n >= 0
RECURSIVE str(_)
str(n) == IF n < 10 THEN <<DigitChars[n + 1]>> ELSE Append(str(n \div 10), DigitChars[(n % 10) + 1])

\* int(text): the number written in decimal digits; int("") raises ValueError
RECURSIVE int_digits(_, _)
int_digits(text, acc) ==
    IF text = <<>> THEN acc
    ELSE int_digits(Tail(text),
                    acc * 10 + (CHOOSE d \in 0..9 : DigitChars[d + 1] = Head(text)))

int_raises(text) == text = <<>>
int(text) == int_digits(text, 0)

\* a reading that takes every output root for a fresh one
counter_read_fresh(file) == Return(0)

\* lines 148-152: int(fp.read()) of the file, which raises ValueError on an
\* empty text, or 0 when there is no file
counter_read(file) ==
    IF ~file.exists THEN Return(0)
    ELSE IF int_raises(file.text)
         THEN Raise("ValueError: invalid literal for int() with base 10: ''")
    ELSE Return(int(file.text))

\* an increment that ignores the flag
counter_next_always(run_no, increment) == run_no + 1

\* lines 153-154
counter_next(run_no, increment) == IF increment THEN run_no + 1 ELSE run_no

\* line 155: open(counter_filepath, "w") creates the file or truncates it;
\* in a directory that does not exist it raises and creates nothing
counter_open_w(file) ==
    IF file.dir THEN Return(File(<<>>)) ELSE Raise("FileNotFoundError")

\* line 156 and the close: the text is written from the start of the file,
\* over whatever another writer has put there since the truncation
counter_write(file, run_no) ==
    LET data == str(run_no)
    IN  File(data \o SubSeq(file.text, Len(data) + 1, Len(file.text)))

\* the counter files an output root may hold when the first invocation
\* starts: none, or the number of an earlier run
InitialCounters == {Absent} \cup {File(str(n)) : n \in 0..MaxInitialCounter}

NoProc == [pc |-> "idle", increment |-> FALSE, exists |-> FALSE, text |-> <<>>, run_no |-> 0]

CounterUnused ==
    /\ counter_txt = Absent
    /\ counter0 = Absent
    /\ history = <<>>
    /\ proc = <<>>

NoCalls == [examine_multiverse |-> 0, visit_universe |-> 0]

NoBatch ==
    [state |-> "none", given |-> FALSE, list |-> <<>>, next |-> 1, inflight |-> {}, n_jobs |-> 1]

\* a frame: its column names and, row by row, the cells under them
DataFrame(columns, rows) == [columns |-> columns, rows |-> rows]

NoArgs == [universe_id |-> <<>>, run_no |-> 0, execution_time |-> "None"]

FrameUnused ==
    /\ frame = DataFrame(<<>>, <<>>)
    /\ info_args = NoArgs
    /\ data_info = NotCalled

\* no command line was called; u_id is None, grid_only False and
\* grid_format "json" unless passed
NoOptions ==
    [config |-> <<>>, seed |-> NoneValue, u_id |-> [given |-> FALSE, value |-> <<>>],
     grid_only |-> FALSE, grid_format |-> "json"]

CliUnused ==
    /\ FrameUnused
    /\ aggregated = NotCalled
    /\ mode = "none"
    /\ options = NoOptions
    /\ results_before = {}

RunUnused ==
    /\ CliUnused
    /\ files = {}
    /\ dirs = {}
    /\ batch = NoBatch
    /\ missing_info = NotCalled
    /\ visited = {}
    /\ calls = NoCalls
    /\ visiting = <<>>
    /\ produced = {}
    /\ deleted = {}
    /\ run_was_empty = TRUE

-----------------------------------------------------------------------------
(* The grid specification: a configuration is declared dimension by        *)
(* dimension, and generate_multiverse_grid is called on it.                *)

\* the number of options the configuration declares
RECURSIVE TotalOptions(_)
TotalOptions(dims) ==
    IF dims = <<>> THEN 0 ELSE Len(Head(dims).value) + TotalOptions(Tail(dims))

NoSelf == [run_no |-> 0, seed |-> NoneValue, output_dir |-> "none", notebook |-> "none"]

Init ==
    /\ phase = "start"
    /\ dimensions = <<>>
    /\ constraints = <<>>
    /\ grid = NotCalled
    /\ self = NoSelf
    /\ universe_parameters = <<>>
    /\ universe_id = <<>>
    /\ CounterUnused
    /\ RunUnused

\* the configuration gains a dimension: dimensions[k] = ol
DeclareDimension ==
    /\ phase = "start"
    /\ \E k \in DimensionNames \ Range(Keys(dimensions)) :
       \E m \in 0..(MaxTotalOptions - TotalOptions(dimensions)) :
       \E ol \in [1..m -> OptionValues] :
          dimensions' = Append(dimensions, [key |-> k, value |-> ol])
    /\ UNCHANGED <<phase, constraints, grid, self, universe_parameters, universe_id, counterVars, runVars, cliVars, frameVars>>

GenerateGrid ==
    /\ phase = "start"
    /\ grid' = generate_multiverse_grid(dimensions, constraints)
    /\ phase' = "grid"
    /\ UNCHANGED <<dimensions, constraints, self, universe_parameters, universe_id, counterVars, runVars, cliVars, frameVars>>

Next == DeclareDimension \/ GenerateGrid

Spec == Init /\ [][Next]_vars

\* an option as a universe holds it: a list-valued option is held as the
\* tuple of its elements, every other option as it is
HeldAs(v, option) ==
    IF option.kind = "list" THEN v.kind = "tuple" /\ v.elems = option.elems
    ELSE v = option

\* the options of every dimension are pairwise different, a list-valued
\* option counting as the tuple of its elements
PairwiseDifferent(dims) ==
    \A d \in 1..Len(dims) : \A i, j \in 1..Len(dims[d].value) :
        i # j => ~HeldAs(values_conv_item(dims[d].value[i]), dims[d].value[j])

\* the number of combinations of the dimensions from position p on
RECURSIVE Combinations(_, _)
Combinations(dims, p) ==
    IF p > Len(dims) THEN 1 ELSE Len(dims[p].value) * Combinations(dims, p + 1)

\* the option of dimension p that combination n selects when the first
\* dimension varies slowest and the last fastest
SelectedOption(dims, n, p) ==
    dims[p].value[(((n - 1) \div Combinations(dims, p + 1)) % Len(dims[p].value)) + 1]

\* C1: without constraints, the grid of a configuration with pairwise
\* different options is the cartesian product of the option lists: its
\* length is the product of the option counts, universe n maps every
\* dimension, in declared order, to the option that combination n selects
\* with the first dimension varying slowest and the last fastest, and no
\* combination occurs twice.
C1_CartesianProduct ==
    (phase = "grid" /\ constraints = <<>> /\ dimensions # <<>> /\ PairwiseDifferent(dimensions)) =>
        /\ grid.ok
        /\ Len(grid.value) = Combinations(dimensions, 1)
        /\ \A n \in 1..Len(grid.value) :
              /\ Keys(grid.value[n]) = Keys(dimensions)
              /\ \A p \in 1..Len(dimensions) :
                    HeldAs(grid.value[n][p].value, SelectedOption(dimensions, n, p))
        /\ \A n, m \in 1..Len(grid.value) : n # m => ~DictEq(grid.value[n], grid.value[m])

\* C1 witness: a grid of two dimensions with two options each was generated
C1_Witness ==
    /\ phase = "grid" /\ grid.ok
    /\ Len(dimensions) = 2 /\ Len(grid.value) = 4
    /\ \E d \in 1..2 : \E i \in 1..2 : dimensions[d].value[i].kind = "list"

-----------------------------------------------------------------------------
(* The constraints specification: generate_multiverse_grid is called on a  *)
(* configuration of scalar options with a constraints mapping that is      *)
(* built constraint by constraint.                                         *)

Scalar(n) == [kind |-> "scalar", elems |-> <<n>>]

Item(k, v) == [key |-> k, value |-> v]

\* scaler x feature_selector of test_apply_constraints, as x and y with
\* options 1, 2, 3; the same with y declared first; and x alone
ConstrainedConfigurations ==
    { <<Item("x", <<Scalar(1), Scalar(2), Scalar(3)>>), Item("y", <<Scalar(1), Scalar(2), Scalar(3)>>)>>,
      <<Item("y", <<Scalar(1), Scalar(2), Scalar(3)>>), Item("x", <<Scalar(2), Scalar(3)>>)>>,
      <<Item("x", <<Scalar(1), Scalar(2), Scalar(3)>>)>> }

\* the dimensions and values a constraint is attached to
ConstrainedDimensions == {"x", "y"}
ConstrainedValues == <<Scalar(2), Scalar(3)>>

\* the mappings an allowed_if or a forbidden_if may be: {y: 3},
\* {x: 2, y: 3} and {w: 3}, w being no dimension of any configuration
Conditions ==
    << <<Item("y", Scalar(3))>>,
       <<Item("x", Scalar(2)), Item("y", Scalar(3))>>,
       <<Item("w", Scalar(3))>> >>

\* the constraint {value: v, allowed_if: Conditions[a], forbidden_if:
\* Conditions[f]}; a = 0 or f = 0 leaves that key out
Constraint(v, a, f) ==
    [value |-> ConstrainedValues[v],
     has_allowed_if |-> a # 0, allowed_if |-> IF a = 0 THEN <<>> ELSE Conditions[a],
     has_forbidden_if |-> f # 0, forbidden_if |-> IF f = 0 THEN <<>> ELSE Conditions[f]]

ConditionIndex(has, cond) ==
    IF ~has THEN 0 ELSE CHOOSE i \in 1..Len(Conditions) : Conditions[i] = cond

\* the place of a constraint in the order the mapping is written in
Rank(d, c) ==
    KeyIndex(d) * 1000
    + (CHOOSE v \in 1..Len(ConstrainedValues) : ConstrainedValues[v] = c.value) * 100
    + ConditionIndex(c.has_allowed_if, c.allowed_if) * 10
    + ConditionIndex(c.has_forbidden_if, c.forbidden_if)

RECURSIVE ConstraintCount(_)
ConstraintCount(cons) ==
    IF cons = <<>> THEN 0 ELSE Len(Head(cons).value) + ConstraintCount(Tail(cons))

\* constraints.setdefault(d, []).append(c)
WithConstraint(cons, d, c) ==
    IF d \in Range(Keys(cons))
    THEN [i \in 1..Len(cons) |->
            IF cons[i].key = d THEN Item(d, Append(cons[i].value, c)) ELSE cons[i]]
    ELSE Append(cons, Item(d, <<c>>))

InitConstraints ==
    /\ phase = "start"
    /\ dimensions \in ConstrainedConfigurations
    /\ constraints = <<>>
    /\ grid = NotCalled
    /\ self = NoSelf
    /\ universe_parameters = <<>>
    /\ universe_id = <<>>
    /\ CounterUnused
    /\ RunUnused

\* the constraints mapping gains a constraint; the mapping is written in
\* the order of Rank, no constraint twice
DeclareConstraint ==
    /\ phase = "start"
    /\ ConstraintCount(constraints) < MaxConstraints
    /\ \E d \in ConstrainedDimensions : \E v \in 1..Len(ConstrainedValues) :
       \E a, f \in 0..Len(Conditions) :
          LET c == Constraint(v, a, f)
          IN  /\ \A i \in 1..Len(constraints) : \A j \in 1..Len(constraints[i].value) :
                    Rank(constraints[i].key, constraints[i].value[j]) < Rank(d, c)
              /\ constraints' = WithConstraint(constraints, d, c)
    /\ UNCHANGED <<phase, dimensions, grid, self, universe_parameters, universe_id, counterVars, runVars, cliVars, frameVars>>

NextConstraints == DeclareConstraint \/ GenerateGrid

SpecConstraints == InitConstraints /\ [][NextConstraints]_vars

\* a listed dimension/value pair matches the universe
PairMatches(u, pair) ==
    \E i \in 1..Len(u) : u[i].key = pair.key /\ u[i].value = pair.value

\* the universe passes every constraint on its own values
PassesConstraints(u, cons) ==
    \A d \in 1..Len(cons) : \A c \in 1..Len(cons[d].value) :
        LET con == cons[d].value[c]
        IN  con.value = Lookup(u, cons[d].key) =>
              /\ con.has_allowed_if =>
                    \A p \in 1..Len(con.allowed_if) : PairMatches(u, con.allowed_if[p])
              /\ con.has_forbidden_if =>
                    \A p \in 1..Len(con.forbidden_if) : ~PairMatches(u, con.forbidden_if[p])

\* the sub-list of the universes that pass, in their original order
Passing(full, cons) ==
    LET Test(u) == PassesConstraints(u, cons) IN SelectSeq(full, Test)

\* the constraints of test_apply_constraints: x = 3 (no-scaler) allowed_if
\* y = 3 (use-all-features), x = 2 (MinMaxScaler) forbidden_if y = 3
ScalerConstraints == <<Item("x", <<Constraint(1, 0, 1), Constraint(2, 1, 0)>>)>>

\* C2: with constraints on declared dimensions, the grid is the sub-list,
\* in the original order, of the unconstrained grid that holds exactly the
\* universes passing every constraint whose value equals the universe's
\* value on the constrained dimension: an allowed_if passes when every
\* listed pair matches, a forbidden_if when no listed pair matches.  The
\* 3 x 3 scaler example keeps exactly 6 universes.
C2_ConstrainedGrid ==
    (/\ phase = "grid" /\ constraints # <<>>
     /\ Range(Keys(constraints)) \subseteq Range(Keys(dimensions))) =>
        /\ grid.ok
        /\ grid.value = Passing(generate_multiverse_grid(dimensions, <<>>).value, constraints)
        /\ (constraints = ScalerConstraints /\ Len(dimensions) = 2 /\ Len(dimensions[2].value) = 3) =>
              /\ Len(grid.value) = 6
              /\ \A n \in 1..6 :
                    LET x == Lookup(grid.value[n], "x")
                        y == Lookup(grid.value[n], "y")
                    IN  /\ x = Scalar(3) => y = Scalar(3)
                        /\ x = Scalar(2) => y # Scalar(3)

\* C2 witness: the scaler example was filtered from 9 universes to 6
C2_Witness ==
    /\ phase = "grid" /\ grid.ok
    /\ constraints = ScalerConstraints
    /\ Len(dimensions) = 2 /\ Len(dimensions[2].value) = 3
    /\ Len(grid.value) = 6

-----------------------------------------------------------------------------
(* The identity specification: a parameter mapping is filled key by key,   *)
(* in any order, and an analysis is asked for its ID.                      *)

\* the analyses that may be asked: they differ in run_no, seed, output_dir
\* and notebook
Analyses ==
    [run_no : {1, 2}, seed : {Scalar(DEFAULT_SEED), Scalar(1)},
     output_dir : {"./output", "./other"},
     notebook : {"./universe.ipynb", "./other.ipynb"}]

InitIdentity ==
    /\ phase = "start"
    /\ dimensions = <<>>
    /\ constraints = <<>>
    /\ grid = NotCalled
    /\ self = NoSelf
    /\ universe_parameters = <<>>
    /\ universe_id = <<>>
    /\ CounterUnused
    /\ RunUnused

\* universe_parameters[k] = v, for a new key k
SetParameter ==
    /\ phase = "start"
    /\ \E k \in DimensionNames \ Range(Keys(universe_parameters)) : \E v \in OptionValues :
          universe_parameters' = Append(universe_parameters, Item(k, v))
    /\ UNCHANGED <<phase, dimensions, constraints, grid, self, universe_id, counterVars, runVars, cliVars, frameVars>>

\* mv.generate_universe_id(universe_parameters)
GenerateUniverseId ==
    /\ phase = "start"
    /\ \E mv \in Analyses :
          /\ self' = mv
          /\ universe_id' = MultiverseAnalysis_generate_universe_id(mv, universe_parameters)
    /\ phase' = "id"
    /\ UNCHANGED <<dimensions, constraints, grid, universe_parameters, counterVars, runVars, cliVars, frameVars>>

NextIdentity == SetParameter \/ GenerateUniverseId

SpecIdentity == InitIdentity /\ [][NextIdentity]_vars

\* the mapping with its keys inserted in every other order
InsertionOrders(d) ==
    { [i \in 1..Len(d) |-> d[p[i]]] : p \in Permutations(1..Len(d)) }

\* C3: the ID returned for a mapping is the ID of the same mapping with its
\* keys inserted in any other order, from the method and from the helper.
C3_InsertionOrderInvariant ==
    phase = "id" =>
        \A q \in InsertionOrders(universe_parameters) :
            /\ MultiverseAnalysis_generate_universe_id(self, q) = universe_id
            /\ generate_universe_id(q) = universe_id

\* C3 witness: an ID was computed for a mapping whose keys were inserted
\* out of sorted order
C3_Witness ==
    /\ phase = "id"
    /\ Len(universe_parameters) = 3
    /\ universe_parameters[1].key = "z" /\ universe_parameters[2].key = "x"

\* C4: the ID returned is the ID every analysis, whatever its run_no, seed,
\* output_dir and notebook, gives to the same mapping.
C4_IdOfMappingAlone ==
    phase = "id" =>
        \A mv \in Analyses :
            MultiverseAnalysis_generate_universe_id(mv, universe_parameters) = universe_id

\* C4 witness: an analysis of run 2 with a seed of its own computed an ID
C4_Witness ==
    /\ phase = "id"
    /\ self.run_no = 2 /\ self.seed # Scalar(DEFAULT_SEED) /\ self.output_dir = "./other"
    /\ Len(universe_parameters) = 2

-----------------------------------------------------------------------------
(* The counter specification: non-overlapping invocations construct a      *)
(* MultiverseAnalysis against one output root, each resolving its run      *)
(* number in __init__.                                                     *)

GridUnused ==
    /\ phase = "start"
    /\ dimensions = <<>>
    /\ constraints = <<>>
    /\ grid = NotCalled
    /\ self = NoSelf
    /\ universe_parameters = <<>>
    /\ universe_id = <<>>

\* the run numbers a caller may pass explicitly
ExplicitRunNumbers == {0, 5}

InitCounter ==
    /\ GridUnused
    /\ RunUnused
    \* or the output root is no directory yet, or an interrupted write has
    \* left counter.txt empty
    /\ counter_txt \in InitialCounters \cup {NoDirectory, File(<<>>)}
    /\ counter0 = counter_txt
    /\ history = <<>>
    /\ proc = <<>>

\* read_counter(increment), run to completion: the number it returns and
\* the file it leaves
\* the exception of int() or of open() leaves read_counter
read_counter_result(file, increment) ==
    IF ~counter_read(file).ok THEN counter_read(file)
    ELSE IF ~counter_open_w(file).ok THEN counter_open_w(file)
    ELSE Return(counter_next(counter_read(file).value, increment))
read_counter_file(file, increment) ==
    IF ~read_counter_result(file, increment).ok THEN file
    ELSE counter_write(counter_open_w(file).value, read_counter_result(file, increment).value)

\* what an invocation that resolved its run number through the counter
\* leaves in the history: the number, or the exception that ended __init__
Resolution(file, new_run) ==
    LET r == read_counter_result(file, new_run)
    IN  [explicit |-> FALSE, new_run |-> new_run,
         run_no |-> IF r.ok THEN r.value ELSE 0, raised |-> r.error,
         before |-> file, after |-> read_counter_file(file, new_run)]

\* MultiverseAnalysis(run_no=None, new_run=new_run): read_counter(increment=new_run)
ConstructResolved ==
    /\ Len(history) < MaxInvocations
    /\ \E new_run \in BOOLEAN :
          /\ counter_txt' = read_counter_file(counter_txt, new_run)
          /\ history' = Append(history, Resolution(counter_txt, new_run))
    /\ UNCHANGED <<gridVars, counter0, proc, runVars, cliVars, frameVars>>

\* the run_no argument of __init__: an int, or None
Given(n) == [given |-> TRUE, value |-> n]
None == [given |-> FALSE, value |-> 0]

\* a resolution that reads and writes the counter whatever the argument
init_run_no_through_counter(run_no, file, new_run) ==
    [run_no |-> IF run_no.given THEN Return(run_no.value)
                ELSE read_counter_result(file, new_run),
     file |-> read_counter_file(file, new_run)]

\* self.run_no = run_no if run_no is not None else
\* self.read_counter(increment=new_run): the number and the file left
init_run_no(run_no, file, new_run) ==
    IF run_no.given THEN [run_no |-> Return(run_no.value), file |-> file]
    ELSE [run_no |-> read_counter_result(file, new_run),
          file |-> read_counter_file(file, new_run)]

\* MultiverseAnalysis(run_no=n): the counter is not consulted
ConstructExplicit ==
    /\ Len(history) < MaxInvocations
    /\ \E n \in ExplicitRunNumbers, new_run \in BOOLEAN :
          /\ counter_txt' = init_run_no(Given(n), counter_txt, new_run).file
          /\ history' = Append(history,
                [explicit |-> TRUE, new_run |-> new_run, given |-> n,
                 run_no |-> init_run_no(Given(n), counter_txt, new_run).run_no.value,
                 raised |-> init_run_no(Given(n), counter_txt, new_run).run_no.error,
                 before |-> counter_txt,
                 after |-> init_run_no(Given(n), counter_txt, new_run).file])
    /\ UNCHANGED <<gridVars, counter0, proc, runVars, cliVars, frameVars>>

NextCounter == ConstructResolved \/ ConstructExplicit

SpecCounter == InitCounter /\ [][NextCounter]_vars

\* the output root exists and holds no counter.txt or one with a number
Resolvable(file) == file.dir /\ (file.exists => file.text # <<>>)

\* the number a counter file stands for: an absent file is 0
PersistedValue(file) ==
    IF ~file.exists THEN 0
    ELSE CHOOSE n \in 0..(MaxInitialCounter + MaxInvocations + 1) : str(n) = file.text

\* C5: in an output root that holds no counter.txt or one with a number,
\* every counter resolution returns and reads an absent file as 0; a
\* new-run resolution returns the counter + 1 and leaves it persisted, so
\* the first new run of a fresh output root is run 1; a continue resolution
\* returns the counter and leaves the persisted value as it was.
C5_CounterResolution ==
    \A i \in 1..Len(history) :
        LET h == history[i]
            before == PersistedValue(h.before)
        IN  (~h.explicit /\ Resolvable(h.before)) =>
              /\ h.raised = "none"
              /\ h.after.exists
              /\ h.new_run =>
                    /\ h.run_no = before + 1
                    /\ h.after.text = str(before + 1)
                    /\ ~h.before.exists => h.run_no = 1
              /\ ~h.new_run =>
                    /\ h.run_no = before
                    /\ PersistedValue(h.after) = before

\* C5 witness: a fresh output root saw a continue resolution and then its
\* first new run
C5_Witness ==
    /\ Len(history) = 2
    /\ ~counter0.exists
    /\ ~history[1].explicit /\ ~history[1].new_run /\ history[1].run_no = 0
    /\ ~history[2].explicit /\ history[2].new_run /\ history[2].run_no = 1

\* the counter-resolved invocations before invocation i
ResolvedBefore(i) == {j \in 1..(i - 1) : ~history[j].explicit}
NewRunsBefore(i) == {j \in ResolvedBefore(i) : history[j].new_run}

\* C6: over any sequence of non-overlapping invocations against an output
\* root that began with no counter.txt or one with a number, the persisted
\* counter never decreases, every new run obtains the previous counter + 1,
\* a number greater than every counter-resolved run number before it, and
\* every continue obtains the number of the most recent new run (the
\* counter the first invocation found, when there was none).
C6_MonotoneRunNumbers ==
    /\ \A i \in 1..Len(history) :
          /\ Resolvable(counter0) =>
                /\ Resolvable(history[i].after)
                /\ PersistedValue(history[i].after) >= PersistedValue(history[i].before)
          /\ history[i].before = (IF i = 1 THEN counter0 ELSE history[i - 1].after)
    /\ counter_txt = (IF history = <<>> THEN counter0 ELSE history[Len(history)].after)
    /\ \A i \in 1..Len(history) :
          LET h == history[i]
          IN  (~h.explicit /\ Resolvable(counter0)) =>
                /\ h.raised = "none"
                /\ h.new_run =>
                      /\ h.run_no = PersistedValue(h.before) + 1
                      /\ \A j \in ResolvedBefore(i) : h.run_no > history[j].run_no
                /\ ~h.new_run =>
                      IF NewRunsBefore(i) = {} THEN h.run_no = PersistedValue(counter0)
                      ELSE h.run_no =
                             history[CHOOSE j \in NewRunsBefore(i) :
                                        \A k \in NewRunsBefore(i) : k <= j].run_no

\* C6 witness: two new runs and then a continue, from a counter of 9
C6_Witness ==
    /\ Len(history) = 3
    /\ counter0 = File(<<"9">>)
    /\ ~history[1].explicit /\ history[1].new_run /\ history[1].run_no = 10
    /\ ~history[2].explicit /\ history[2].new_run /\ history[2].run_no = 11
    /\ ~history[3].explicit /\ ~history[3].new_run /\ history[3].run_no = 11

-----------------------------------------------------------------------------
(* The race specification: two invocations against one output root run     *)
(* read_counter at the same time, each statement of it a step and each     *)
(* read of the file that fp.read() makes a step of its own.  No lock is    *)
(* taken anywhere in read_counter.                                         *)

Procs == {1, 2}

InitRace ==
    /\ GridUnused
    /\ RunUnused
    /\ counter_txt \in InitialCounters
    /\ counter0 = counter_txt
    /\ history = <<>>
    /\ proc = [p \in Procs |-> NoProc]

\* read_counter(increment) is entered
RaceEnter(p) ==
    /\ proc[p].pc = "idle"
    /\ \E increment \in BOOLEAN :
          proc' = [proc EXCEPT ![p] = [NoProc EXCEPT !.pc = "is_file", !.increment = increment]]
    /\ UNCHANGED <<gridVars, counter_txt, counter0, history, runVars, cliVars, frameVars>>

\* line 148: counter_filepath.is_file(), and the open of line 149; line 152
\* when there is no file
RaceIsFile(p) ==
    /\ proc[p].pc = "is_file"
    /\ proc' = [proc EXCEPT ![p] =
                   IF counter_txt.exists
                   THEN [@ EXCEPT !.pc = "read", !.exists = TRUE]
                   ELSE [@ EXCEPT !.pc = "open_w",
                                  !.run_no = counter_next(counter_read(Absent).value,
                                                          proc[p].increment)]]
    /\ UNCHANGED <<gridVars, counter_txt, counter0, history, runVars, cliVars, frameVars>>

\* line 150, one read of the file that fp.read() makes: it gives what the
\* file holds from the position of the reader on, and fp.read() goes on
\* reading until a read gives nothing.  What another invocation truncates
\* or writes between two reads is what the next read meets.  After the
\* read that gives nothing: int(...) of what the reads gave, ValueError
\* when that is no number, and the increment of lines 153-154
RaceRead(p) ==
    /\ proc[p].pc = "read"
    /\ LET position == Len(proc[p].text)
           chunk == SubSeq(counter_txt.text, position + 1, Len(counter_txt.text))
       IN  proc' = [proc EXCEPT ![p] =
                       IF chunk # <<>> THEN [@ EXCEPT !.text = @ \o chunk]
                       ELSE IF int_raises(proc[p].text) THEN [@ EXCEPT !.pc = "ValueError"]
                       ELSE [@ EXCEPT !.pc = "open_w",
                                      !.run_no = counter_next(int(proc[p].text),
                                                              proc[p].increment)]]
    /\ UNCHANGED <<gridVars, counter_txt, counter0, history, runVars, cliVars, frameVars>>

\* line 155: open(counter_filepath, "w")
RaceOpenW(p) ==
    /\ proc[p].pc = "open_w"
    /\ counter_txt' = (IF counter_open_w(counter_txt).ok THEN counter_open_w(counter_txt).value
                       ELSE counter_txt)
    /\ proc' = [proc EXCEPT ![p].pc = IF counter_open_w(counter_txt).ok THEN "write"
                                      ELSE "FileNotFoundError"]
    /\ UNCHANGED <<gridVars, counter0, history, runVars, cliVars, frameVars>>

\* line 156 and the close of the file
RaceWrite(p) ==
    /\ proc[p].pc = "write"
    /\ counter_txt' = counter_write(counter_txt, proc[p].run_no)
    /\ proc' = [proc EXCEPT ![p].pc = "return"]
    /\ UNCHANGED <<gridVars, counter0, history, runVars, cliVars, frameVars>>

\* line 158: return run_no
RaceReturn(p) ==
    /\ proc[p].pc = "return"
    /\ proc' = [proc EXCEPT ![p].pc = "done"]
    /\ history' = Append(history,
            [explicit |-> FALSE, new_run |-> proc[p].increment, run_no |-> proc[p].run_no,
             raised |-> "none", before |-> counter0, after |-> counter_txt])
    /\ UNCHANGED <<gridVars, counter_txt, counter0, runVars, cliVars, frameVars>>

NextRace ==
    \E p \in Procs :
        \/ RaceEnter(p)
        \/ RaceIsFile(p)
        \/ RaceRead(p)
        \/ RaceOpenW(p)
        \/ RaceWrite(p)
        \/ RaceReturn(p)

SpecRace == InitRace /\ [][NextRace]_vars

\* C7: when two invocations that resolve a new run at the same time have
\* both returned, they hold different run numbers and the persisted counter
\* is its initial value + 2.
C7_AtomicCounter ==
    (/\ \A p \in Procs : proc[p].pc = "done" /\ proc[p].increment) =>
        /\ proc[1].run_no # proc[2].run_no
        /\ counter_txt = File(str(PersistedValue(counter0) + 2))

-----------------------------------------------------------------------------
(* multiverse.py: the run directory and the methods that write and read    *)
(* it.  A file is [dir, name, content]; dir and name are sequences of     *)
(* path parts and of characters, built as the code concatenates them.      *)

\* multiverse.py's own generate_multiverse_grid (lines 28-41): zip(*items)
\* of no dimension has nothing to unpack; no conversion, no duplicate check
multiverse_generate_multiverse_grid(dims) ==
    IF dims = <<>> THEN Raise("ValueError: not enough values to unpack")
    ELSE LET keys == Keys(dims)
             values == [i \in 1..Len(dims) |-> dims[i].value]
             prod == product(values)
         IN  Return([n \in 1..Len(prod) |-> dict_zip(keys, prod[n])])

\* self.generate_grid(save=False): the value self.grid takes and is returned
generate_grid(dims) == multiverse_generate_multiverse_grid(dims)

\* the run directory itself, whatever the sub-directory
get_run_dir_no_sub(mv, sub_directory) == <<mv.output_dir, "runs">> \o str(mv.run_no)

\* self.get_run_dir(sub_directory): the path it returns
get_run_dir(mv, sub_directory) ==
    <<mv.output_dir, "runs">> \o str(mv.run_no) \o <<sub_directory>>

\* target_dir.mkdir(parents=True, exist_ok=True) on a sub-directory of a
\* run: the directories that exist after it, ds having existed before
mkdir_parents(ds, output_dir, run_no, sub_directory) ==
    ds \cup {<<output_dir, "runs">>,
             <<output_dir, "runs">> \o str(run_no),
             <<output_dir, "runs">> \o str(run_no) \o <<sub_directory>>}

\* self.get_run_dir(sub_directory): the directories it leaves
get_run_dir_dirs(mv, sub_directory, ds) ==
    mkdir_parents(ds, mv.output_dir, mv.run_no, sub_directory)

\* a trace name that leaves the universe out
output_filename_run_only(mv, id) == <<"m_">> \o str(mv.run_no) \o <<".ipynb">>

\* "m_" + str(self.run_no) + "-" + universe_id + ".ipynb"
output_filename(mv, id) == <<"m_">> \o str(mv.run_no) \o <<"-">> \o id \o <<".ipynb">>

\* settings that take the run after the one of the analysis
visit_settings_next_run(mv, universe_dimensions) ==
    [universe_id |-> MultiverseAnalysis_generate_universe_id(mv, universe_dimensions),
     dimensions |-> universe_dimensions,
     run_no |-> mv.run_no + 1,
     output_dir |-> mv.output_dir,
     seed |-> mv.seed]

\* the settings dictionary of visit_universe
visit_settings(mv, universe_dimensions) ==
    [universe_id |-> MultiverseAnalysis_generate_universe_id(mv, universe_dimensions),
     dimensions |-> universe_dimensions,
     run_no |-> mv.run_no,
     output_dir |-> mv.output_dir,
     seed |-> mv.seed]

\* writing a file: a file of the same directory and name is replaced
write_file(fs, dir, name, content) ==
    {f \in fs : ~(f.dir = dir /\ f.name = name)} \cup
        {[dir |-> dir, name |-> name, content |-> content]}

\* the name of the result artifact of a universe: by run number and ID
artifact_filename(settings) ==
    <<"d_">> \o str(settings.run_no) \o <<"-">> \o settings.universe_id \o <<".csv">>

\* the directory the executor writes the artifact to
artifact_dir(settings) == <<settings.output_dir, "runs">> \o str(settings.run_no) \o <<"data">>

\* the artifact: one row tagged with the universe ID and the run number
artifact_rows(settings) ==
    << [mv_universe_id |-> settings.universe_id, mv_run_no |-> settings.run_no] >>

\* the executor's side of a visit that succeeds: exactly one artifact
save_data(fs, settings) ==
    write_file(fs, artifact_dir(settings), artifact_filename(settings), artifact_rows(settings))

\* execute_notebook_via_api: papermill writes the executed notebook to
\* output_path whether or not a cell fails; the notebook's cells write the
\* artifact when they run through
execute_notebook_via_api(fs, output_dir, output_filename_, settings, succeeds) ==
    LET traced == write_file(fs, output_dir, output_filename_, <<settings>>)
    IN  IF succeeds THEN save_data(traced, settings) ELSE traced

\* execute_notebook_via_cli, ds being the directories that exist:
\* subprocess.run of the papermill executable, which raises
\* FileNotFoundError when there is none on the path; run without
\* check=True, a papermill that fails is printed and not raised: one that
\* finds no folder to write output_path in runs no cell and leaves no file,
\* and otherwise the call returns with the files papermill and the
\* notebook left
execute_notebook_via_cli(fs, ds, output_dir, output_filename_, settings, on_path, succeeds) ==
    IF ~on_path THEN Raise("FileNotFoundError")
    ELSE IF output_dir \notin ds THEN Return(fs)
    ELSE Return(execute_notebook_via_api(fs, output_dir, output_filename_, settings, succeeds))

\* visit_universe(universe_dimensions): the files it leaves
visit_universe(mv, universe_dimensions, fs, succeeds) ==
    LET settings == visit_settings(mv, universe_dimensions)
    IN  execute_notebook_via_api(fs, get_run_dir(mv, "notebooks"),
                                 output_filename(mv, settings.universe_id), settings, succeeds)

\* visit_universe(universe_dimensions): the directories it leaves, the
\* notebooks directory through get_run_dir and, when the notebook's cells
\* run through, the data directory the executor saves to
visit_universe_dirs(mv, ds, succeeds) ==
    LET made == get_run_dir_dirs(mv, "notebooks", ds)
    IN  IF succeeds THEN mkdir_parents(made, mv.output_dir, mv.run_no, "data") ELSE made

\* a listing that takes every file with .csv somewhere in its name
glob_csv_anywhere(fs, dir) == {f \in fs : f.dir = dir /\ ".csv" \in Range(f.name)}

\* data_dir.glob("*.csv"): the files of the directory whose name ends in .csv
glob_csv(fs, dir) ==
    {f \in fs : f.dir = dir /\ f.name # <<>> /\ f.name[Len(f.name)] = ".csv"}

\* the orders in which a directory listing, or the iteration of a set of
\* str, may yield the elements of S: the file system and the hash seed of
\* the process decide, not the program
RECURSIVE Orders(_)
Orders(S) ==
    IF S = {} THEN {<<>>}
    ELSE UNION {{<<e>> \o o : o \in Orders(S \ {e})} : e \in S}

\* csv_files = data_dir.glob("*.csv"), as a caller may find it: the files
\* in one of the orders the listing may yield them in
csv_listings(mv, fs) == Orders(glob_csv(fs, get_run_dir(mv, "data")))

\* (pd.read_csv(f) for f in csv_files): the rows of the files, in the
\* order of csv_files
RECURSIVE read_csv_all(_)
read_csv_all(csv_files) ==
    IF csv_files = <<>> THEN <<>>
    ELSE Head(csv_files).content \o read_csv_all(Tail(csv_files))

\* a cell a frame has no value for
NaN == "NaN"

\* a concatenation that keeps only the columns every frame has
concat_inner(csv_files) ==
    LET rows == read_csv_all(csv_files)
        columns == {c \in UNION {DOMAIN rows[k] : k \in 1..Len(rows)} :
                        \A k \in 1..Len(rows) : c \in DOMAIN rows[k]}
    IN  [k \in 1..Len(rows) |-> [c \in columns |-> rows[k][c]]]

\* pd.concat(..., ignore_index=True): the rows of every frame, in the order
\* of the frames, under the union of the columns, NaN where a frame lacks a
\* column
concat(csv_files) ==
    LET rows == read_csv_all(csv_files)
        columns == UNION {DOMAIN rows[k] : k \in 1..Len(rows)}
    IN  [k \in 1..Len(rows) |->
            [c \in columns |-> IF c \in DOMAIN rows[k] THEN rows[k][c] ELSE NaN]]

\* an aggregation that returns an empty table when there is no file
aggregate_data_empty_table(mv, fs, csv_files) == Return(concat(csv_files))

\* aggregate_data(save=False), the listing having yielded csv_files, one of
\* csv_listings(mv, fs): pd.concat of no file raises ValueError
aggregate_data(mv, fs, csv_files) ==
    IF glob_csv(fs, get_run_dir(mv, "data")) = {}
    THEN Raise("ValueError: No objects to concatenate")
    ELSE Return(concat(csv_files))

\* "agg_" + str(self.run_no) + "_run_outputs.csv.gz"
snapshot_filename(mv) == <<"agg_">> \o str(mv.run_no) \o <<"_run_outputs", ".csv", ".gz">>

\* aggregate_data(save): the files it leaves; df.to_csv is reached only
\* when pd.concat returned
aggregate_data_files(mv, fs, csv_files, save) ==
    LET df == aggregate_data(mv, fs, csv_files)
    IN  IF df.ok /\ save
        THEN write_file(fs, get_run_dir(mv, "data"), snapshot_filename(mv), df.value)
        ELSE fs

\* generate_grid(save), dir telling whether output_dir exists: self.grid
\* is set, and open(output_dir / "multiverse_grid.json", "w"), which makes
\* no directory, raises where there is none
generate_grid_saving(dims, save, dir) ==
    IF generate_grid(dims).ok /\ save /\ ~dir THEN Raise("FileNotFoundError")
    ELSE generate_grid(dims)

\* generate_grid(save): the files it leaves
generate_grid_files(mv, dims, fs, save, dir) ==
    IF save /\ dir /\ generate_grid(dims).ok
    THEN write_file(fs, <<mv.output_dir>>, <<"multiverse_grid", ".json">>,
                    <<[grid |-> generate_grid(dims).value]>>)
    ELSE fs

\* all_universe_ids - universe_ids_with_data
missing_of(all_universe_ids, universe_ids_with_data) ==
    all_universe_ids \ universe_ids_with_data

\* the difference with its operands the other way round
extra_of_swapped(all_universe_ids, universe_ids_with_data) ==
    all_universe_ids \ universe_ids_with_data

\* universe_ids_with_data - all_universe_ids
extra_of(all_universe_ids, universe_ids_with_data) ==
    universe_ids_with_data \ all_universe_ids

\* d[k] = v: a key the dict holds keeps its place and takes the value
dict_set(d, k, v) ==
    IF k \in Range(Keys(d))
    THEN [i \in 1..Len(d) |-> IF d[i].key = k THEN Item(k, v) ELSE d[i]]
    ELSE Append(d, Item(k, v))

\* check_missing_universes: {self.generate_universe_id(u_params): u_params
\* for u_params in multiverse_grid}, from the n-th universe on
RECURSIVE multiverse_dict_from(_, _, _, _)
multiverse_dict_from(mv, multiverse_grid, n, d) ==
    IF n > Len(multiverse_grid) THEN d
    ELSE multiverse_dict_from(mv, multiverse_grid, n + 1,
            dict_set(d, MultiverseAnalysis_generate_universe_id(mv, multiverse_grid[n]),
                     multiverse_grid[n]))

\* check_missing_universes: multiverse_dict
multiverse_dict(mv, multiverse_grid) == multiverse_dict_from(mv, multiverse_grid, 1, <<>>)

\* multiverse_dict[u_id]
multiverse_dict_get(d, u_id) == Lookup(d, u_id)

\* all_universe_ids - universe_ids_with_data, the set that the list
\* comprehension of check_missing_universes iterates over, of the files fs;
\* no ID when generate_grid raises
missing_universe_ids_of(mv, dims, fs) ==
    LET multiverse_grid == generate_grid(dims)
    IN  IF ~multiverse_grid.ok THEN {}
        ELSE missing_of(Range(Keys(multiverse_dict(mv, multiverse_grid.value))),
                        UNION {{f.content[n].mv_universe_id : n \in 1..Len(f.content)} :
                                  f \in glob_csv(fs, get_run_dir(mv, "data"))})

\* [multiverse_dict[u_id] for u_id in missing_universe_ids]: the set yields
\* its IDs in the order hash_order, the order the hash seed of the process
\* puts them in
missing_universes_of(d, ids, hash_order) ==
    LET Held(u_id) == u_id \in ids
        iteration == SelectSeq(hash_order, Held)
    IN  [n \in 1..Len(iteration) |-> multiverse_dict_get(d, iteration[n])]

\* check_missing_universes(), the listing having yielded csv_files, one of
\* csv_listings(mv, fs), and the hash seed having put the missing IDs in
\* hash_order, one of Orders(missing_universe_ids_of(mv, dims, fs))
check_missing_universes(mv, dims, fs, csv_files, hash_order) ==
    LET multiverse_grid == generate_grid(dims)
        aggregated_data == aggregate_data(mv, fs, csv_files)
    IN  IF ~multiverse_grid.ok THEN multiverse_grid
        ELSE IF ~aggregated_data.ok THEN aggregated_data
        ELSE LET id_map == multiverse_dict(mv, multiverse_grid.value)
                 all_universe_ids == Range(Keys(id_map))
                 universe_ids_with_data ==
                     {aggregated_data.value[n].mv_universe_id :
                         n \in 1..Len(aggregated_data.value)}
                 missing_universe_ids == missing_of(all_universe_ids, universe_ids_with_data)
             IN  Return([missing_universe_ids |-> missing_universe_ids,
                         extra_universe_ids |-> extra_of(all_universe_ids, universe_ids_with_data),
                         missing_universes |->
                             missing_universes_of(id_map, missing_universe_ids, hash_order)])

-----------------------------------------------------------------------------
(* The run specification: one MultiverseAnalysis is built on an output     *)
(* root that an earlier invocation may have left results in; its           *)
(* universes are visited, in batches and one by one, artifacts are         *)
(* deleted from its run, and the run is reconciled against the grid.       *)

MaxWorkers == 2
MaxCalls == 2
MaxDeletes == 1

\* a configuration of three universes
ThreeUniverses == <<Item("x", <<Scalar(1), Scalar(2), Scalar(3)>>), Item("y", <<Scalar(1)>>)>>

\* that configuration, and one that declares the dimensions in the other
\* order and drops an option: two universes, both among the three
RunConfigurations ==
    { ThreeUniverses, <<Item("y", <<Scalar(1)>>), Item("x", <<Scalar(2), Scalar(3)>>)>> }

TheAnalysis(run_no) ==
    [run_no |-> run_no, seed |-> Scalar(DEFAULT_SEED), output_dir |-> "./output",
     notebook |-> "./universe.ipynb"]

\* what an earlier invocation may have visited, as run 1: nothing, or the
\* first two of the three universes, one of them in both configurations
PriorVisits ==
    {{}, {generate_grid(ThreeUniverses).value[n] : n \in 1..2}}

\* the files that successful visits of the universes leave
RECURSIVE visit_all(_, _, _)
visit_all(mv, universes, fs) ==
    IF universes = {} THEN fs
    ELSE LET u == CHOOSE v \in universes : TRUE
         IN  visit_all(mv, universes \ {u}, visit_universe(mv, u, fs, TRUE))

InitRun ==
    /\ GridUnused
    /\ \E earlier \in PriorVisits :
          /\ files = visit_all(TheAnalysis(1), earlier, {})
          /\ dirs = (IF earlier = {} THEN {} ELSE visit_universe_dirs(TheAnalysis(1), {}, TRUE))
          /\ counter_txt = (IF earlier = {} THEN Absent ELSE File(str(1)))
    /\ counter0 = counter_txt
    /\ history = <<>>
    /\ proc = <<>>
    /\ batch = NoBatch
    /\ missing_info = NotCalled
    /\ visited = {}
    /\ calls = NoCalls
    /\ visiting = <<>>
    /\ produced = {}
    /\ deleted = {}
    /\ run_was_empty = TRUE
    /\ CliUnused

\* the calls of examine_multiverse and visit_universe made so far
CallsMade == calls.examine_multiverse + calls.visit_universe

\* MultiverseAnalysis(dimensions, run_no=None, new_run=new_run); the
\* exception of read_counter leaves __init__, and there is no analysis
Construct ==
    /\ phase = "start"
    /\ \E cfg \in RunConfigurations, new_run \in BOOLEAN :
          LET run_no == read_counter_result(counter_txt, new_run)
          IN  /\ counter_txt' = read_counter_file(counter_txt, new_run)
              /\ history' = Append(history, Resolution(counter_txt, new_run))
              /\ IF run_no.ok
                 THEN /\ self' = TheAnalysis(run_no.value)
                      /\ dimensions' = cfg
                      /\ run_was_empty' =
                            (glob_csv(files, get_run_dir(TheAnalysis(run_no.value), "data")) = {})
                      /\ phase' = "constructed"
                 ELSE /\ UNCHANGED <<self, dimensions, run_was_empty>>
                      /\ phase' = "raised"
    /\ UNCHANGED <<constraints, grid, universe_parameters, universe_id, counter0, proc,
                   files, dirs, batch, missing_info, visited, calls, visiting, produced, deleted, cliVars,
                   frameVars>>

\* Parallel(...) has taken every universe of the list but the last
batch_exhausted_one_short(b) == b.next >= Len(b.list)

\* Parallel(...) has taken every universe of the list
batch_exhausted(b) == b.next > Len(b.list)

\* the list a caller passes to examine_multiverse: the missing universes
\* of the reconciliation it has made or, as the first call on the analysis,
\* a list of its own, the last and the first universe of the grid
GivenLists ==
    IF missing_info.ok THEN {missing_info.value.missing_universes}
    ELSE IF CallsMade > 0 THEN {}
    ELSE LET multiverse_grid == generate_grid(dimensions)
         IN  IF multiverse_grid.ok
             THEN {<<multiverse_grid.value[Len(multiverse_grid.value)], multiverse_grid.value[1]>>}
             ELSE {}

\* the IDs of the universes of a list
IdsOf(list) ==
    {MultiverseAnalysis_generate_universe_id(self, list[n]) : n \in 1..Len(list)}

\* examine_multiverse(multiverse_grid, n_jobs) is called: with no list it
\* visits self.grid or, when that is None or empty, generate_grid(save=False)
ExamineMultiverse ==
    /\ phase = "constructed"
    /\ batch.state # "running" /\ batch.inflight = {} /\ visiting = <<>>
    /\ CallsMade < MaxCalls
    /\ calls' = [calls EXCEPT !.examine_multiverse = @ + 1]
    /\ \E n_jobs \in 1..MaxWorkers :
       \E given \in BOOLEAN :
       \E list \in (IF given THEN GivenLists ELSE {<<>>}) :
          LET self_grid == IF grid.ok /\ grid.value # <<>> THEN grid ELSE generate_grid(dimensions)
              multiverse_grid == IF given THEN Return(list) ELSE self_grid
          IN  /\ grid' = (IF ~given /\ self_grid.ok THEN self_grid ELSE grid)
              /\ batch' = (IF multiverse_grid.ok
                           THEN [state |-> "running", given |-> given,
                                 list |-> multiverse_grid.value,
                                 next |-> 1, inflight |-> {}, n_jobs |-> n_jobs]
                           ELSE [NoBatch EXCEPT !.state = "raised"])
    /\ missing_info' = NotCalled
    /\ UNCHANGED <<phase, dimensions, constraints, self, universe_parameters, universe_id,
                   counterVars, files, dirs, visited, visiting, produced, deleted, run_was_empty,
                   cliVars, frameVars>>

\* a worker takes the next universe of the list and calls visit_universe,
\* which gets the notebooks directory from get_run_dir, made where there
\* was none, and waits in execute_notebook_via_api
Dispatch ==
    /\ batch.state = "running"
    /\ ~batch_exhausted(batch)
    /\ Cardinality(batch.inflight) < batch.n_jobs
    /\ batch' = [batch EXCEPT !.inflight = @ \cup {batch.next}, !.next = @ + 1]
    /\ dirs' = get_run_dir_dirs(self, "notebooks", dirs)
    /\ UNCHANGED <<gridVars, counterVars, files, missing_info, visited, calls, visiting, produced,
                   deleted, run_was_empty, cliVars, frameVars>>

\* what the end of a visit changes, execute_notebook_via_api having
\* returned or raised: the notebooks directory was made when the visit began
Visit(universe_dimensions, succeeds) ==
    LET id == MultiverseAnalysis_generate_universe_id(self, universe_dimensions)
    IN  /\ files' = visit_universe(self, universe_dimensions, files, succeeds)
        /\ dirs' = visit_universe_dirs(self, dirs, succeeds)
        /\ visited' = visited \cup {id}
        /\ produced' = (IF succeeds THEN produced \cup {id} ELSE produced)
        /\ deleted' = (IF succeeds THEN deleted \ {id} ELSE deleted)

\* a worker's visit_universe returns or raises; the exception of a visit
\* leaves Parallel(...) and examine_multiverse
VisitFinish ==
    /\ batch.state \in {"running", "raised"}
    /\ \E i \in batch.inflight, succeeds \in BOOLEAN :
          /\ Visit(batch.list[i], succeeds)
          /\ batch' = [batch EXCEPT !.inflight = @ \ {i},
                                    !.state = IF succeeds THEN @ ELSE "raised"]
    /\ UNCHANGED <<gridVars, counterVars, missing_info, calls, visiting, run_was_empty, cliVars, frameVars>>

\* joblib stops the workers of a batch that raised: a worker is stopped in
\* execute_notebook_via_api, before or after papermill wrote the notebook
\* of its universe
VisitKilled ==
    /\ batch.state = "raised"
    /\ \E i \in batch.inflight, traced \in BOOLEAN :
          /\ files' = (IF traced
                       THEN write_file(files, get_run_dir(self, "notebooks"),
                                output_filename(self,
                                    MultiverseAnalysis_generate_universe_id(self, batch.list[i])),
                                <<visit_settings(self, batch.list[i])>>)
                       ELSE files)
          /\ batch' = [batch EXCEPT !.inflight = @ \ {i}]
    /\ UNCHANGED <<gridVars, counterVars, dirs, missing_info, visited, calls, visiting, produced,
                   deleted, run_was_empty, cliVars, frameVars>>

\* a Parallel(...) that returns once every universe was taken
parallel_done_no_join(b) == batch_exhausted(b)

\* Parallel(...) returns the results: every universe was taken and every
\* worker has come back
parallel_done(b) == batch_exhausted(b) /\ b.inflight = {}

\* examine_multiverse returns: every universe was taken and visited
ExamineReturns ==
    /\ batch.state = "running"
    /\ parallel_done(batch)
    /\ batch' = [batch EXCEPT !.state = "returned", !.n_jobs = 1]
    /\ UNCHANGED <<gridVars, counterVars, files, dirs, missing_info, visited, calls, visiting, produced,
                   deleted, run_was_empty, cliVars, frameVars>>

\* visit_universe(universe_dimensions) is called on its own: it gets the
\* notebooks directory from get_run_dir, made where there was none, and
\* waits in execute_notebook_via_api
VisitUniverse ==
    /\ phase = "constructed"
    /\ batch.state # "running" /\ batch.inflight = {} /\ visiting = <<>>
    /\ CallsMade < MaxCalls
    /\ calls' = [calls EXCEPT !.visit_universe = @ + 1]
    /\ \E u \in Range(generate_grid(dimensions).value) : visiting' = <<u>>
    /\ dirs' = get_run_dir_dirs(self, "notebooks", dirs)
    /\ missing_info' = NotCalled
    /\ UNCHANGED <<gridVars, counterVars, files, batch, visited, produced, deleted,
                   run_was_empty, cliVars, frameVars>>

\* the visit_universe call in progress returns or raises, as
\* execute_notebook_via_api does
VisitUniverseReturns ==
    /\ visiting # <<>>
    /\ \E succeeds \in BOOLEAN : Visit(visiting[1], succeeds)
    /\ visiting' = <<>>
    /\ UNCHANGED <<gridVars, counterVars, batch, missing_info, calls, run_was_empty, cliVars,
                   frameVars>>

\* a result artifact of the run is deleted from outside
DeleteArtifact ==
    /\ phase = "constructed"
    /\ batch.state # "running" /\ batch.inflight = {} /\ visiting = <<>>
    /\ Cardinality(deleted) < MaxDeletes
    /\ \E f \in glob_csv(files, get_run_dir(self, "data")) :
          /\ files' = files \ {f}
          /\ deleted' = deleted \cup {f.content[1].mv_universe_id}
          /\ produced' = produced \ {f.content[1].mv_universe_id}
    /\ missing_info' = NotCalled
    /\ UNCHANGED <<gridVars, counterVars, dirs, batch, visited, calls, visiting, run_was_empty, cliVars,
                   frameVars>>

\* a reconciliation that calls generate_grid() and aggregate_data() with
\* their defaults, save=True
check_missing_universes_saving(mv, dims, fs, csv_files) ==
    IF ~generate_grid(dims).ok THEN fs
    ELSE aggregate_data_files(mv, generate_grid_files(mv, dims, fs, TRUE, TRUE), csv_files, TRUE)

\* check_missing_universes(): the files it leaves, after
\* generate_grid(save=False) and aggregate_data(save=False)
check_missing_universes_files(mv, dims, fs, csv_files) ==
    IF ~generate_grid(dims).ok THEN fs
    ELSE aggregate_data_files(mv, generate_grid_files(mv, dims, fs, FALSE, TRUE), csv_files, FALSE)

\* check_missing_universes(): the directories it leaves; aggregate_data
\* asks get_run_dir for the data directory, which makes it
check_missing_universes_dirs(mv, dims, ds) ==
    IF ~generate_grid(dims).ok THEN ds ELSE get_run_dir_dirs(mv, "data", ds)

\* check_missing_universes(): generate_grid(save=False) sets self.grid
CheckMissing ==
    /\ phase = "constructed"
    /\ batch.state # "running" /\ batch.inflight = {} /\ visiting = <<>>
    /\ LET listings == csv_listings(self, files)
           hash_orders == Orders(missing_universe_ids_of(self, dimensions, files))
       IN  \E csv_files \in listings : \E hash_order \in hash_orders :
              /\ missing_info' = check_missing_universes(self, dimensions, files, csv_files,
                                                          hash_order)
              /\ files' = check_missing_universes_files(self, dimensions, files, csv_files)
    /\ dirs' = check_missing_universes_dirs(self, dimensions, dirs)
    /\ LET multiverse_grid == generate_grid(dimensions)
       IN  grid' = (IF multiverse_grid.ok THEN multiverse_grid ELSE grid)
    /\ UNCHANGED <<phase, dimensions, constraints, self, universe_parameters, universe_id,
                   counterVars, batch, visited, calls, visiting, produced, deleted, run_was_empty, cliVars, frameVars>>

NextRun ==
    \/ Construct
    \/ ExamineMultiverse
    \/ Dispatch
    \/ VisitFinish
    \/ VisitKilled
    \/ ExamineReturns
    \/ VisitUniverse
    \/ VisitUniverseReturns
    \/ DeleteArtifact
    \/ CheckMissing

SpecRun == InitRun /\ [][NextRun]_vars

\* the traces and the artifacts of a universe in the run of the analysis
TracesOf(id) ==
    {f \in files : /\ f.dir = get_run_dir(self, "notebooks")
                   /\ f.content[1].universe_id = id}
ArtifactsOf(id) ==
    {f \in files : /\ f.dir = get_run_dir(self, "data")
                   /\ f.content[1].mv_universe_id = id}

\* the run and the universe a file is of
FileOf(f) ==
    IF f.dir[Len(f.dir)] = "notebooks"
    THEN <<f.dir, f.content[1].run_no, f.content[1].universe_id>>
    ELSE <<f.dir, f.content[1].mv_run_no, f.content[1].mv_universe_id>>

\* C8: no directory ever holds two files of the same run and universe;
\* every universe the analysis visited, however often, has exactly one
\* trace in the notebooks directory of its run, and every universe whose
\* visit succeeded has exactly one artifact in the data directory, until
\* that artifact is deleted.
C8_IdempotentVisit ==
    /\ \A f, g \in files : FileOf(f) = FileOf(g) => f = g
    /\ phase = "constructed" =>
          /\ \A id \in visited : Cardinality(TracesOf(id)) = 1
          /\ \A id \in produced : Cardinality(ArtifactsOf(id)) = 1

\* C8 witness: a batch over the whole grid returned and a universe of the
\* grid was visited on its own as well, so that universe was visited twice
C8_Witness ==
    /\ phase = "constructed"
    /\ batch.state = "returned"
    /\ batch.list = generate_grid(dimensions).value
    /\ calls.visit_universe = 1
    /\ \A n \in 1..Len(batch.list) :
          LET id == MultiverseAnalysis_generate_universe_id(self, batch.list[n])
          IN  Cardinality(TracesOf(id)) = 1 /\ Cardinality(ArtifactsOf(id)) = 1

\* the IDs of the current grid and the IDs in the aggregated data of the run
GridIds ==
    {MultiverseAnalysis_generate_universe_id(self, u) : u \in Range(generate_grid(dimensions).value)}
DataIds ==
    {f.content[1].mv_universe_id : f \in glob_csv(files, get_run_dir(self, "data"))}

\* C9: what check_missing_universes returned has as missing IDs the IDs of
\* the grid that the aggregated data lacks, as extra IDs the IDs of the
\* aggregated data that the grid lacks, and as missing universes one grid
\* universe for each missing ID and no other; no ID is both missing and
\* extra, and an ID of both the grid and the data is neither.
C9_Reconciliation ==
    missing_info.ok =>
        LET info == missing_info.value
        IN  /\ info.missing_universe_ids = GridIds \ DataIds
            /\ info.extra_universe_ids = DataIds \ GridIds
            /\ Len(info.missing_universes) = Cardinality(info.missing_universe_ids)
            /\ Range(info.missing_universes) \subseteq Range(generate_grid(dimensions).value)
            /\ {MultiverseAnalysis_generate_universe_id(self, u) :
                   u \in Range(info.missing_universes)} = info.missing_universe_ids
            /\ info.missing_universe_ids \cap info.extra_universe_ids = {}
            /\ \A id \in GridIds \cap DataIds :
                  id \notin info.missing_universe_ids \cup info.extra_universe_ids

\* C9 witness: a reconciliation found a missing ID, an extra ID and an ID
\* that the grid and the data share
C9_Witness ==
    /\ missing_info.ok
    /\ missing_info.value.missing_universe_ids # {}
    /\ missing_info.value.extra_universe_ids # {}
    /\ GridIds \cap DataIds # {}

\* a batch over the whole grid returned
FullBatchVisited ==
    /\ phase = "constructed"
    /\ batch.state = "returned"
    /\ batch.list = generate_grid(dimensions).value

\* what the reconciliation after a full batch reports
FullBatchReconciled ==
    LET info == missing_info.value
    IN  /\ deleted = {} =>
              /\ info.missing_universe_ids = {}
              /\ info.extra_universe_ids = {}
        /\ Cardinality(deleted) = 1 =>
              /\ info.missing_universe_ids = deleted
              /\ info.extra_universe_ids = {}
              /\ Len(info.missing_universes) = 1
              /\ MultiverseAnalysis_generate_universe_id(self, info.missing_universes[1])
                    \in deleted
              /\ info.missing_universes[1] \in Range(batch.list)

\* C10 as stated: a reconciliation after a batch over the whole grid
\* returned reports no missing and no extra ID while no artifact was
\* deleted; when one artifact was deleted and not written again, it reports
\* that universe's ID as the only missing ID, that universe as the only
\* missing universe, and no extra ID.
C10_FullBatchInAnyRun ==
    (FullBatchVisited /\ missing_info.ok) => FullBatchReconciled

\* C10: in a run that held no artifact before, a reconciliation after a
\* batch over the whole grid returned reports no missing and no extra ID
\* while no artifact was deleted; when one artifact was deleted and not
\* written again, it reports that universe's ID as the only missing ID,
\* that universe as the only missing universe, and no extra ID.
C10_FullBatchThenDelete ==
    (FullBatchVisited /\ run_was_empty /\ missing_info.ok) => FullBatchReconciled

\* C10 witness: after the batch one artifact was deleted, another remained,
\* and the reconciliation named the deleted one
C10_Witness ==
    /\ FullBatchVisited /\ run_was_empty /\ missing_info.ok
    /\ Cardinality(deleted) = 1
    /\ missing_info.value.missing_universe_ids = deleted
    /\ produced # {}

-----------------------------------------------------------------------------
(* Grid generation on an empty mapping and on repeated options (Spec),     *)
(* and the ID across container representations (SpecIdentity).             *)

\* C17: generate_multiverse_grid on an empty dimensions mapping raises
\* ValueError and returns no grid.
C17_EmptyDimensionsRaise ==
    (phase = "grid" /\ dimensions = <<>>) =>
        /\ ~grid.ok
        /\ grid.value = <<>>
        /\ grid.error = "ValueError: No (or empty) dimensions provided."

\* C17 witness: the grid was asked for with no dimension declared
C17_Witness == phase = "grid" /\ dimensions = <<>> /\ ~grid.ok

\* C18: generate_multiverse_grid on an empty dimensions mapping returns the
\* empty list.
C18_EmptyDimensionsEmptyGrid ==
    (phase = "grid" /\ dimensions = <<>>) => (grid.ok /\ grid.value = <<>>)

\* C19: on a non-empty mapping, generate_multiverse_grid raises ValueError
\* and returns no grid exactly when some dimension holds two equal options,
\* a list counting as the tuple of its elements; equal options of different
\* dimensions do not make it fail.
C19_DuplicateOptionsRaise ==
    (phase = "grid" /\ dimensions # <<>>) =>
        /\ grid.ok <=> PairwiseDifferent(dimensions)
        /\ ~grid.ok =>
              /\ grid.value = <<>>
              /\ grid.error = "ValueError: Dimensions must not contain duplicate values."

\* C19 witness: a dimension declared a list and, not next to it, the tuple
\* of the same elements, and the grid was refused
C19_Witness ==
    /\ phase = "grid" /\ ~grid.ok
    /\ \E d \in 1..Len(dimensions) :
          /\ Len(dimensions[d].value) = 3
          /\ dimensions[d].value[1].kind = "list"
          /\ dimensions[d].value[3].kind = "tuple"
          /\ dimensions[d].value[1].elems = dimensions[d].value[3].elems
          /\ dimensions[d].value[2].kind = "scalar"

\* the mappings that differ from d only in holding sequence values as
\* lists or as tuples
Representations(d) ==
    {q \in [1..Len(d) -> [key : Range(Keys(d)), value : OptionValues]] :
        \A i \in 1..Len(d) :
            /\ q[i].key = d[i].key
            /\ q[i].value.elems = d[i].value.elems
            /\ (q[i].value.kind = "scalar") <=> (d[i].value.kind = "scalar")}

\* C20: the ID returned for a mapping is the ID of every mapping that
\* differs from it only in holding a sequence value as a list or as a
\* tuple, and the ID of the mapping read back from its JSON export.
C20_RepresentationInvariant ==
    phase = "id" =>
        /\ \A q \in Representations(universe_parameters) :
              /\ MultiverseAnalysis_generate_universe_id(self, q) = universe_id
              /\ generate_universe_id(q) = universe_id
        /\ generate_universe_id(json_load(json_dump(universe_parameters))) = universe_id
        /\ json_load(json_dump(universe_parameters)) \in Representations(universe_parameters)

\* C20 witness: an ID was computed for a mapping that holds a tuple, which
\* the JSON export reads back as a list
C20_Witness ==
    /\ phase = "id"
    /\ \E i \in 1..Len(universe_parameters) : universe_parameters[i].value.kind = "tuple"
    /\ json_load(json_dump(universe_parameters)) # universe_parameters

-----------------------------------------------------------------------------
(* Failures in the run specification (SpecRun). *)

\* C12: a batch that has ended has returned normally, whatever failed in
\* it, and every universe of its list was visited.
C12_FailureIsolation ==
    (batch.state \in {"returned", "raised"} /\ batch.inflight = {}) =>
        /\ batch.state = "returned"
        /\ \A n \in 1..Len(batch.list) :
              MultiverseAnalysis_generate_universe_id(self, batch.list[n]) \in visited

\* C15: check_missing_universes never raises: whatever the data directory
\* of the run holds, it returns its result.
C15_ReconciliationNonFatal ==
    missing_info = NotCalled \/ missing_info.ok

\* the files of a sub-directory of the analysis's run with a given suffix
RunFiles(sub_directory, suffix) ==
    {f \in files : /\ f.dir = <<self.output_dir, "runs">> \o str(self.run_no) \o <<sub_directory>>
                   /\ f.name[Len(f.name)] = suffix}

\* the traces and the artifacts that the run holds of the universes of a list
TracesOfList(list) ==
    {f \in RunFiles("notebooks", ".ipynb") : f.content[1].universe_id \in IdsOf(list)}
ArtifactsOfList(list) ==
    {f \in RunFiles("data", ".csv") : f.content[1].mv_universe_id \in IdsOf(list)}

\* C16: when a batch has returned, the notebooks directory of the run
\* holds as many traces of the universes of its list as the list has
\* universes, one for every universe of the list, and until one is deleted
\* the data directory as many artifacts, one for every universe, whether
\* the list was passed or not, for every worker count and every order of
\* completion; in a run that held nothing before, the batch being the one
\* call made, the two directories hold no other trace and no other artifact;
\* a batch called without a list has the analysis's own grid as its list.
C16_BatchLeavesOnePerUniverse ==
    /\ (batch.state # "none" /\ ~batch.given) =>
          batch.list = generate_grid(dimensions).value
    /\ (phase = "constructed" /\ batch.state = "returned") =>
          /\ Cardinality(IdsOf(batch.list)) = Len(batch.list)
          /\ Cardinality(TracesOfList(batch.list)) = Len(batch.list)
          /\ \A id \in IdsOf(batch.list) :
                Cardinality({f \in RunFiles("notebooks", ".ipynb") :
                                 f.content[1].universe_id = id}) = 1
          /\ deleted \cap IdsOf(batch.list) = {} =>
                /\ Cardinality(ArtifactsOfList(batch.list)) = Len(batch.list)
                /\ \A id \in IdsOf(batch.list) :
                      Cardinality({f \in RunFiles("data", ".csv") :
                                       f.content[1].mv_universe_id = id}) = 1
          /\ (/\ run_was_empty /\ deleted = {}
              /\ calls.examine_multiverse = 1 /\ calls.visit_universe = 0) =>
                /\ Cardinality(RunFiles("notebooks", ".ipynb")) = Len(batch.list)
                /\ Cardinality(RunFiles("data", ".csv")) = Len(batch.list)

\* C16 witness: a batch over a list of two universes that the caller
\* passed returned on a run that held nothing before, and the directories
\* hold two traces and two artifacts
C16_Witness ==
    /\ phase = "constructed" /\ batch.state = "returned" /\ run_was_empty
    /\ batch.given /\ Len(batch.list) = 2
    /\ batch.list # generate_grid(dimensions).value
    /\ calls.examine_multiverse = 1 /\ calls.visit_universe = 0
    /\ visited = IdsOf(batch.list) /\ deleted = {}
    /\ Cardinality(RunFiles("notebooks", ".ipynb")) = 2
    /\ Cardinality(RunFiles("data", ".csv")) = 2

\* the batch of an analysis of three universes, called without a list,
\* returned on a run that held nothing before
BatchOverOwnGridReturned ==
    /\ phase = "constructed" /\ batch.state = "returned" /\ run_was_empty
    /\ calls.examine_multiverse = 1 /\ calls.visit_universe = 0
    /\ ~batch.given /\ Len(batch.list) = 3
    /\ Cardinality(RunFiles("notebooks", ".ipynb")) = 3
    /\ Cardinality(RunFiles("data", ".csv")) = 3

-----------------------------------------------------------------------------
(* The aggregation specification: the executor leaves artifacts with       *)
(* result columns of its own in the data directory of run 1, and           *)
(* aggregate_data is called on it.                                         *)

ResultColumns == {"value", "score"}

AggregateConfiguration ==
    <<Item("x", <<Scalar(1), Scalar(2), Scalar(3)>>), Item("y", <<Scalar(1)>>)>>

\* the row an executor saves: the reserved columns and its result columns
result_row(settings, columns) ==
    [c \in {"mv_universe_id", "mv_run_no"} \cup columns |->
        IF c = "mv_universe_id" THEN settings.universe_id
        ELSE IF c = "mv_run_no" THEN settings.run_no
        ELSE 42]

InitAggregate ==
    /\ phase = "constructed"
    /\ dimensions = AggregateConfiguration
    /\ constraints = <<>>
    /\ grid = NotCalled
    /\ self = TheAnalysis(1)
    /\ universe_parameters = <<>>
    /\ universe_id = <<>>
    /\ CounterUnused
    /\ RunUnused

\* the executor of a universe saves its artifact
SaveData ==
    /\ phase = "constructed"
    /\ \E u \in Range(generate_grid(dimensions).value), columns \in SUBSET ResultColumns :
          LET settings == visit_settings(self, u)
          IN  /\ files' = write_file(files, artifact_dir(settings), artifact_filename(settings),
                                     <<result_row(settings, columns)>>)
              /\ dirs' = mkdir_parents(dirs, settings.output_dir, settings.run_no, "data")
    /\ UNCHANGED <<gridVars, counterVars, batch, missing_info, visited, calls, visiting, produced,
                   deleted, run_was_empty, cliVars, frameVars>>

\* aggregate_data(save)
AggregateData ==
    /\ phase \in {"constructed", "aggregated"}
    /\ \E save \in BOOLEAN : \E csv_files \in csv_listings(self, files) :
          /\ aggregated' = aggregate_data(self, files, csv_files)
          /\ files' = aggregate_data_files(self, files, csv_files, save)
    /\ dirs' = get_run_dir_dirs(self, "data", dirs)
    /\ phase' = "aggregated"
    /\ UNCHANGED <<dimensions, constraints, grid, self, universe_parameters, universe_id,
                   counterVars, batch, missing_info, visited, calls, visiting, produced, deleted,
                   run_was_empty, mode, options, results_before, frameVars>>

NextAggregate == SaveData \/ AggregateData

SpecAggregate == InitAggregate /\ [][NextAggregate]_vars

\* C13: aggregate_data called on a data directory with no per-universe
\* artifact raises ValueError, returns no table and leaves no snapshot.
C13_AggregateNothingRaises ==
    (phase = "aggregated" /\ RunFiles("data", ".csv") = {}) =>
        /\ ~aggregated.ok
        /\ aggregated.value = <<>>
        /\ aggregated.error = "ValueError: No objects to concatenate"
        /\ files = {}

\* C13 witness: aggregate_data was called before any artifact was saved
C13_Witness == phase = "aggregated" /\ files = {} /\ ~aggregated.ok

\* the columns of the artifacts of the run
ArtifactColumns == UNION {DOMAIN f.content[1] : f \in RunFiles("data", ".csv")}

\* C14: aggregate_data called on a data directory with artifacts returns a
\* table with one row per artifact, every row under the union of the
\* artifacts' columns: the row of an artifact has the artifact's value in
\* each column the artifact has and the no-value marker in each it lacks.
C14_AggregateUnionOfColumns ==
    (phase = "aggregated" /\ RunFiles("data", ".csv") # {}) =>
        /\ aggregated.ok
        /\ Len(aggregated.value) = Cardinality(RunFiles("data", ".csv"))
        /\ \A k \in 1..Len(aggregated.value) : DOMAIN aggregated.value[k] = ArtifactColumns
        /\ \A f \in RunFiles("data", ".csv") :
              \E k \in 1..Len(aggregated.value) :
                  /\ aggregated.value[k].mv_universe_id = f.content[1].mv_universe_id
                  /\ \A c \in ArtifactColumns :
                        IF c \in DOMAIN f.content[1]
                        THEN aggregated.value[k][c] = f.content[1][c]
                        ELSE aggregated.value[k][c] = NaN

\* C14 witness: three artifacts with different columns were aggregated, one
\* with a value and no score, one with a score and no value
C14_Witness ==
    /\ phase = "aggregated" /\ aggregated.ok
    /\ Len(aggregated.value) = 3
    /\ ArtifactColumns = {"mv_universe_id", "mv_run_no", "value", "score"}
    /\ \E f, g \in RunFiles("data", ".csv") :
          /\ DOMAIN f.content[1] = {"mv_universe_id", "mv_run_no", "value"}
          /\ DOMAIN g.content[1] = {"mv_universe_id", "mv_run_no", "score"}

-----------------------------------------------------------------------------
(* The command-line specification: the command line is called once, in   *)
(* one of its modes and with its options, on an output root that an        *)
(* earlier invocation may have left results in.                            *)

\* {generate_universe_id(u_params): u_params for u_params in multiverse_grid},
\* from the n-th universe on
RECURSIVE add_ids_from(_, _, _)
add_ids_from(multiverse_grid, n, d) ==
    IF n > Len(multiverse_grid) THEN d
    ELSE add_ids_from(multiverse_grid, n + 1,
                      dict_set(d, generate_universe_id(multiverse_grid[n]), multiverse_grid[n]))

\* helpers.py: add_ids_to_multiverse_grid(multiverse_grid)
add_ids_to_multiverse_grid(multiverse_grid) == add_ids_from(multiverse_grid, 1, <<>>)

\* --mode
CliModes == {"full", "continue", "test"}

\* --u-id: not given, the empty prefix, or the ID of a universe of the three
CliUIds ==
    {NoOptions.u_id, [given |-> TRUE, value |-> <<>>]} \cup
        {[given |-> TRUE, value |-> generate_universe_id(u)] :
             u \in Range(generate_grid(ThreeUniverses).value)}

\* python -m multiversum: the imports of __main__.py raise ImportError, the
\* package holding no logger module and multiverse.py none of
\* DEFAULT_CONFIG_FILES, DEFAULT_UNIVERSE_FILES and
\* add_ids_to_multiverse_grid; cli() called where those names are bound
\* raises TypeError on its first call, MultiverseAnalysis(config=...,
\* universe=...), which __init__ has no parameters for: no analysis is
\* built, the counter is not read and nothing is visited
Cli ==
    /\ phase = "start"
    /\ \E m \in CliModes, cfg \in RunConfigurations, seed \in {NoneValue, Scalar(1)},
          u_id \in CliUIds, grid_only \in BOOLEAN, grid_format \in {"json", "csv", "none"},
          imported \in BOOLEAN :
          /\ mode' = m
          /\ options' = [config |-> cfg, seed |-> seed, u_id |-> u_id,
                         grid_only |-> grid_only, grid_format |-> grid_format]
          /\ phase' = (IF imported THEN "TypeError" ELSE "ImportError")
    /\ UNCHANGED <<dimensions, constraints, grid, self, universe_parameters, universe_id,
                   counterVars, runVars, aggregated, results_before, frameVars>>

NextCli == Cli

\* an earlier invocation, as run 1, left the results of the first universes
\* of a grid or none; or there was no earlier invocation
InitCli ==
    /\ GridUnused
    /\ \E earlier \in PriorVisits :
          /\ files = visit_all(TheAnalysis(1), earlier, {})
          /\ dirs = (IF earlier = {} THEN {} ELSE visit_universe_dirs(TheAnalysis(1), {}, TRUE))
          /\ counter_txt \in {File(str(1))} \cup (IF earlier = {} THEN {Absent} ELSE {})
          /\ results_before = {generate_universe_id(u) : u \in earlier}
    /\ counter0 = counter_txt
    /\ history = <<>>
    /\ proc = <<>>
    /\ batch = NoBatch
    /\ missing_info = NotCalled
    /\ visited = {}
    /\ calls = NoCalls
    /\ visiting = <<>>
    /\ produced = {}
    /\ deleted = {}
    /\ run_was_empty = TRUE
    /\ FrameUnused
    /\ aggregated = NotCalled
    /\ mode = "none"
    /\ options = NoOptions

SpecCli == InitCli /\ [][NextCli]_vars

\* the IDs of the universes that the configuration of the command line
\* declares
ConfiguredIds ==
    {generate_universe_id(u) : u \in Range(generate_grid(options.config).value)}

\* C11: a command line called in continue mode, with neither --grid-only
\* nor --u-id, has the counter's value as the run number of its analysis
\* and leaves the counter at that value, and when it has ended the
\* universes visited are the declared universes that had no result in the
\* run: none with a result is visited, and all when none had one.
C11_ContinueResumes ==
    (/\ mode = "continue" /\ phase # "start"
     /\ ~options.grid_only /\ ~options.u_id.given) =>
        /\ Return(self.run_no) = read_counter_result(counter0, FALSE)
        /\ counter_txt = File(str(self.run_no))
        /\ visited = ConfiguredIds \ results_before

-----------------------------------------------------------------------------
(* The grid export and its re-parsing. *)

\* json.dump(self.grid, fp): the text of each universe of the list
grid_export(multiverse_grid) == [n \in 1..Len(multiverse_grid) |-> json_dump(multiverse_grid[n])]

\* json.load(fp) of an exported grid
grid_import(text) == [n \in 1..Len(text) |-> json_load(text[n])]

\* Python's == on two lists of dicts
GridEq(g1, g2) ==
    /\ Len(g1) = Len(g2)
    /\ \A n \in 1..Len(g1) : DictEq(g1[n], g2[n])

\* C21: a generated grid that is exported to JSON and parsed again is a list
\* equal to the generated one: as long, in the same order, each universe
\* with the same keys and equal values.
C21_GridJsonRoundTrip ==
    (phase = "grid" /\ grid.ok) => GridEq(grid_import(grid_export(grid.value)), grid.value)

\* the round trip of a grid whose options are all numbers
GridJsonRoundTripOfScalars ==
    (/\ phase = "grid" /\ grid.ok
     /\ \A d \in 1..Len(dimensions) : \A i \in 1..Len(dimensions[d].value) :
           dimensions[d].value[i].kind = "scalar")
        => GridEq(grid_import(grid_export(grid.value)), grid.value)

-----------------------------------------------------------------------------
(* Malformed constraints. *)

\* a constraint that carries both of allowed_if and forbidden_if, or neither
Malformed(constraint) == constraint.has_allowed_if = constraint.has_forbidden_if

\* C22: a grid is built only from constraints that carry exactly one of
\* allowed_if and forbidden_if: when some constraint of the mapping carries
\* both or neither, generate_multiverse_grid raises and returns no grid.
C22_MalformedConstraintRejected ==
    (/\ phase = "grid"
     /\ \E d \in 1..Len(constraints) : \E c \in 1..Len(constraints[d].value) :
           Malformed(constraints[d].value[c]))
        => ~grid.ok

-----------------------------------------------------------------------------
(* helpers.py: add_universe_info_to_df.  A column name is a sequence of    *)
(* tokens, "mv_dim_" + name being <<"mv_dim_", name>>.                     *)

\* s with x put at place loc, counted from 0
list_insert(s, loc, x) == SubSeq(s, 1, loc) \o <<x>> \o SubSeq(s, loc + 1, Len(s))

\* data.insert(loc, column, value): the value is broadcast to every row;
\* a column the frame already has raises ValueError
insert(df, loc, column, value) ==
    IF column \in Range(df.columns) THEN Raise("ValueError: cannot insert, already exists")
    ELSE Return(DataFrame(list_insert(df.columns, loc, column),
                          [r \in 1..Len(df.rows) |-> list_insert(df.rows[r], loc, value)]))

\* the dimensions in the order they were declared
dimensions_unsorted(dims) == Keys(dims)

\* sorted(dimensions.keys())
dimensions_sorted(dims) == Keys(sorted_items(dims))

\* the columns add_universe_info_to_df inserts, in the order of its inserts
info_columns(universe_id_, run_no, dims, execution_time) ==
    << [column |-> <<"mv_universe_id">>, value |-> universe_id_],
       [column |-> <<"mv_run_no">>, value |-> run_no],
       [column |-> <<"mv_execution_time">>, value |-> execution_time] >>
    \o LET names == dimensions_sorted(dims)
       IN  [i \in 1..Len(dims) |->
              [column |-> <<"mv_dim_", names[i]>>, value |-> Lookup(dims, names[i])]]

\* the inserts from the n-th on: index = count(); data.insert(next(index), ...);
\* every insert changes the frame in place, so the inserts made before one
\* that raises stay in the caller's frame
RECURSIVE insert_all(_, _, _)
insert_all(df, inserts, n) ==
    IF n > Len(inserts) THEN [returned |-> Return(df), data |-> df]
    ELSE LET r == insert(df, n - 1, inserts[n].column, inserts[n].value)
         IN  IF r.ok THEN insert_all(r.value, inserts, n + 1)
             ELSE [returned |-> r, data |-> df]

\* data.index = [universe_id] on a frame with no row: a frame with no
\* column gets one row, one with columns raises (length mismatch)
set_index(df) ==
    IF df.columns = <<>> THEN Return(DataFrame(<<>>, << <<>> >>))
    ELSE Raise("ValueError: Length mismatch")

\* add_universe_info_to_df(data, universe_id, run_no, dimensions, execution_time):
\* what the call returns or raises, and the caller's frame after it; the
\* index is set and the columns are inserted in data itself, and data is
\* what is returned
add_universe_info_to_df_call(df, universe_id_, run_no, dims, execution_time) ==
    LET indexed == IF Len(df.rows) = 0 THEN set_index(df) ELSE Return(df)
    IN  IF ~indexed.ok THEN [returned |-> indexed, data |-> df]
        ELSE insert_all(indexed.value, info_columns(universe_id_, run_no, dims, execution_time), 1)

\* add_universe_info_to_df(...): the caller's frame after the call
add_universe_info_to_df_data(df, universe_id_, run_no, dims, execution_time) ==
    add_universe_info_to_df_call(df, universe_id_, run_no, dims, execution_time).data

\* add_universe_info_to_df(...): what it returns
add_universe_info_to_df(df, universe_id_, run_no, dims, execution_time) ==
    add_universe_info_to_df_call(df, universe_id_, run_no, dims, execution_time).returned

(* The frame specification: an executor builds a frame of results column   *)
(* by column and the dimensions of its universe, and                       *)
(* add_universe_info_to_df is called on them.                              *)

MaxRows == 2
MaxColumns == 2

\* the names a result column may have: two of them are names that
\* add_universe_info_to_df inserts
ColumnNames == {<<"value">>, <<"score">>, <<"mv_run_no">>, <<"mv_dim_", "x">>}

\* the cell of a column in row r is one of these plus r
CellValues == {40, 50}
RunNumbers == {0, 1}
ExecutionTimes == {"None", "5.0"}

InitInfo ==
    /\ phase = "start"
    /\ dimensions = <<>>
    /\ constraints = <<>>
    /\ grid = NotCalled
    /\ self = NoSelf
    /\ universe_parameters = <<>>
    /\ universe_id = <<>>
    /\ CounterUnused
    /\ files = {}
    /\ dirs = {}
    /\ batch = NoBatch
    /\ missing_info = NotCalled
    /\ visited = {}
    /\ calls = NoCalls
    /\ visiting = <<>>
    /\ produced = {}
    /\ deleted = {}
    /\ run_was_empty = TRUE
    /\ aggregated = NotCalled
    /\ mode = "none"
    /\ options = NoOptions
    /\ results_before = {}
    /\ \E n \in 0..MaxRows : frame = DataFrame(<<>>, [r \in 1..n |-> <<>>])
    /\ info_args = NoArgs
    /\ data_info = NotCalled

\* data[column] = values, for a new column
AddColumn ==
    /\ phase = "start"
    /\ Len(frame.columns) < MaxColumns
    /\ \E column \in ColumnNames \ Range(frame.columns) :
       \E v \in CellValues :
          frame' = DataFrame(Append(frame.columns, column),
                             [r \in 1..Len(frame.rows) |-> Append(frame.rows[r], v + r)])
    /\ UNCHANGED <<gridVars, counterVars, runVars, cliVars, info_args, data_info>>

\* the dimensions of the universe gain a dimension with a scalar value
SetDimension ==
    /\ phase = "start"
    /\ \E k \in DimensionNames \ Range(Keys(universe_parameters)) : \E n \in {1, 2} :
          universe_parameters' = Append(universe_parameters, Item(k, Scalar(n)))
    /\ UNCHANGED <<phase, dimensions, constraints, grid, self, universe_id, counterVars,
                   runVars, cliVars, frameVars>>

\* add_universe_info_to_df(data, universe_id, run_no, dimensions, execution_time):
\* the frame it is given is changed in place
AddUniverseInfo ==
    /\ phase = "start"
    /\ LET id == generate_universe_id(universe_parameters)
       IN
       \E run_no \in RunNumbers, execution_time \in ExecutionTimes :
          LET args == [universe_id |-> id, run_no |-> run_no,
                       execution_time |-> execution_time]
              call == add_universe_info_to_df_call(frame, args.universe_id, args.run_no,
                                                   universe_parameters, args.execution_time)
          IN  /\ info_args' = args
              /\ data_info' = call.returned
              /\ frame' = call.data
    /\ phase' = "info"
    /\ UNCHANGED <<dimensions, constraints, grid, self, universe_parameters, universe_id,
                   counterVars, runVars, cliVars>>

NextInfo == AddColumn \/ SetDimension \/ AddUniverseInfo

SpecInfo == InitInfo /\ [][NextInfo]_vars

\* the number of rows of the frame that add_universe_info_to_df works on
RowsOf(df) == IF Len(df.rows) = 0 THEN 1 ELSE Len(df.rows)

\* a call of add_universe_info_to_df that returns
InfoReturns == phase = "start" /\ phase' = "info" /\ data_info'.ok

\* what the call leaves of the frame it was given
ReservedColumnsFirst ==
    LET out == data_info'.value
        nd == Len(universe_parameters)
    IN  /\ frame' = out
        /\ Len(out.columns) = 3 + nd + Len(frame.columns)
        /\ SubSeq(out.columns, 1, 3)
              = << <<"mv_universe_id">>, <<"mv_run_no">>, <<"mv_execution_time">> >>
        /\ \A k \in 1..nd :
              /\ Len(out.columns[3 + k]) = 2
              /\ out.columns[3 + k][1] = "mv_dim_"
              /\ out.columns[3 + k][2] \in Range(Keys(universe_parameters))
        /\ \A j, k \in 1..nd :
              j < k => KeyIndex(out.columns[3 + j][2]) < KeyIndex(out.columns[3 + k][2])
        /\ SubSeq(out.columns, 4 + nd, Len(out.columns)) = frame.columns
        /\ Len(out.rows) = RowsOf(frame)
        /\ \A r \in 1..Len(out.rows) :
              /\ Len(out.rows[r]) = Len(out.columns)
              /\ out.rows[r][1] = info_args'.universe_id
              /\ out.rows[r][2] = info_args'.run_no
              /\ out.rows[r][3] = info_args'.execution_time
              /\ \A k \in 1..nd :
                    out.rows[r][3 + k] = Lookup(universe_parameters, out.columns[3 + k][2])
              /\ \A c \in 1..Len(frame.columns) :
                    out.rows[r][3 + nd + c] = frame.rows[r][c]

\* C23: the frame add_universe_info_to_df returns, which is the frame it
\* was given, changed in place, has the columns mv_universe_id, mv_run_no,
\* mv_execution_time, then one mv_dim_<name> per dimension with the names
\* ascending, then the columns the frame had before the call in their
\* order; every row holds the universe ID, the run number, the execution
\* time and the value of each dimension, and the cells the frame had are
\* where they were, unchanged.
C23_ReservedColumnsFirst == [][InfoReturns => ReservedColumnsFirst]_vars

\* C23 witness: a frame of two rows and two columns, for a universe whose
\* dimensions were declared y before x, was given, and it is the frame
\* returned, of seven columns
C23_Witness ==
    /\ phase = "info" /\ data_info.ok
    /\ frame = data_info.value
    /\ Len(frame.rows) = 2 /\ Len(frame.columns) = 7
    /\ Keys(universe_parameters) = <<"y", "x">>
    /\ frame.columns[4] = <<"mv_dim_", "x">>

-----------------------------------------------------------------------------
(* The files of the fan-out. *)

\* the directory and name of every file a visit of a universe writes
written_by(mv, universe_dimensions) ==
    {<<f.dir, f.name>> : f \in visit_universe(mv, universe_dimensions, {}, TRUE)}

\* the file is in a directory of run r and its name is made of r and id
NamedBy(f, r, id) ==
    /\ SubSeq(f.dir, 1, Len(f.dir) - 1) = <<self.output_dir, "runs">> \o str(r)
    /\ SubSeq(f.name, 2, Len(f.name) - 1) = str(r) \o <<"-">> \o id

\* the IDs of the universes of every configuration
AllIds ==
    UNION {{MultiverseAnalysis_generate_universe_id(self, u) :
                u \in Range(generate_grid(cfg).value)} : cfg \in RunConfigurations}

\* no two workers at work write a file of the same directory and name
DisjointWrites ==
    \A i, j \in batch.inflight :
        i # j => written_by(self, batch.list[i]) \cap written_by(self, batch.list[j]) = {}

\* a step that is a visit, of a worker or on its own, adds and replaces
\* only files named by the run of the analysis and the ID of one universe,
\* which for a worker is the universe it took
OwnFilesOnly ==
    (files' # files /\ deleted' \subseteq deleted /\ phase = "constructed") =>
        \E id \in AllIds :
            /\ \A f \in (files' \ files) \cup (files \ files') : NamedBy(f, self.run_no, id)
            /\ \A i \in batch.inflight \ batch'.inflight :
                  id = MultiverseAnalysis_generate_universe_id(self, batch.list[i])

\* C24: the workers of a batch never have a file in common to write, and a
\* visit of a universe in a run adds or replaces only files named by that
\* run and the ID of that universe: every file of another universe or of
\* another run is as it was.
C24_NoWriteConflicts == []DisjointWrites /\ [][OwnFilesOnly]_vars

\* C24 witness: two workers are at work while the output root holds the
\* files of an earlier run and of a universe this batch has visited
C24_Witness ==
    /\ Cardinality(batch.inflight) = 2
    /\ visited # {}
    /\ \E id \in visited : TracesOf(id) # {}
    /\ \E f \in files : ~(\E id \in AllIds : NamedBy(f, self.run_no, id))

\* a step in which the caller reconciles: check_missing_universes, and
\* aggregate_data within it, read the data directory of the run
AggregationStep == missing_info' # missing_info /\ missing_info' # NotCalled

CounterUntouched == phase = "constructed" => (counter_txt' = counter_txt /\ self'.run_no = self.run_no)

\* the run number was resolved once, and every universe the analysis
\* visited has its trace under that number
OneRunNumber ==
    phase = "constructed" =>
        /\ Len(history) = 1
        /\ self.run_no = history[1].run_no
        /\ counter_txt = history[1].after
        /\ \A id \in visited :
              /\ TracesOf(id) # {}
              /\ \A f \in TracesOf(id) : f.content[1].run_no = self.run_no
        /\ \A id \in produced :
              /\ ArtifactsOf(id) # {}
              /\ \A f \in ArtifactsOf(id) : f.content[1].mv_run_no = self.run_no

\* C26: the run number is resolved once, when the analysis is built; no
\* call of examine_multiverse or visit_universe, and no visit of a worker,
\* changes counter.txt or the run number, and every visit of the analysis
\* is made under that one number.
C26_RunNumberAcquiredOnce == []OneRunNumber /\ [][CounterUntouched]_vars

\* C26 witness: a batch of the analysis returned and a universe was visited
\* on its own, with counter.txt still what the construction left
C26_Witness ==
    /\ phase = "constructed"
    /\ batch.state = "returned"
    /\ calls.visit_universe = 1
    /\ Cardinality(visited) >= 2
    /\ counter_txt = File(str(self.run_no))

\* the counter-resolved invocation before invocation i that is the latest
LastResolvedBefore(i) == CHOOSE j \in ResolvedBefore(i) : \A k \in ResolvedBefore(i) : k <= j

\* C30: an analysis built with an explicit run_no has that number and
\* leaves counter.txt as it found it, absent or with the text it had; a
\* new run resolved from the counter gets one more than the counter the
\* latest counter-resolved invocation left (or the output root began
\* with), whatever was built with an explicit number in between.
C30_ExplicitRunNumberBypassesCounter ==
    \A i \in 1..Len(history) :
        LET h == history[i]
        IN  /\ h.explicit =>
                  /\ h.run_no = h.given
                  /\ h.after = h.before
            /\ (~h.explicit /\ h.new_run /\ Resolvable(counter0)) =>
                  h.run_no = 1 + PersistedValue(IF ResolvedBefore(i) = {} THEN counter0
                                                ELSE history[LastResolvedBefore(i)].after)

\* C30 witness: on a fresh output root an analysis was built with an
\* explicit run number, counter.txt stayed absent, and the new run after it
\* got number 1
C30_Witness ==
    /\ Len(history) = 2
    /\ ~counter0.exists
    /\ history[1].explicit /\ history[1].run_no > 1 /\ ~history[1].after.exists
    /\ ~history[2].explicit /\ history[2].new_run /\ history[2].run_no = 1

-----------------------------------------------------------------------------
(* The ID maps: helpers.py's add_ids_to_multiverse_grid, beside the         *)
(* multiverse_dict of check_missing_universes.                             *)

(* The ID-map specification: a configuration is declared dimension by      *)
(* dimension; helpers.py's generate_multiverse_grid is called on it, or    *)
(* check_missing_universes generates the grid of an analysis of it.        *)

\* check_missing_universes, line 205: self.generate_grid(save=False)
AnalysisGenerateGrid ==
    /\ phase = "start"
    /\ grid' = generate_grid(dimensions)
    /\ self' = TheAnalysis(1)
    /\ phase' = "analysis_grid"
    /\ UNCHANGED <<dimensions, constraints, universe_parameters, universe_id, counterVars,
                   runVars, cliVars, frameVars>>

NextIdMap == DeclareDimension \/ GenerateGrid \/ AnalysisGenerateGrid

SpecIdMap == Init /\ [][NextIdMap]_vars

\* the universes of a grid that differ have different IDs, and the map has
\* one entry for each universe of the grid
OneEntryPerUniverse(multiverse_grid, map) ==
    /\ \A m, n \in 1..Len(multiverse_grid) :
          ~DictEq(multiverse_grid[m], multiverse_grid[n]) =>
              generate_universe_id(multiverse_grid[m]) # generate_universe_id(multiverse_grid[n])
    /\ Len(map) = Len(multiverse_grid)

\* C27: in a generated grid, universes that differ have different IDs; the
\* map add_ids_to_multiverse_grid builds of the grid, and the map
\* check_missing_universes builds of the grid of the analysis, have as many
\* entries as the grid has universes.
C27_OneIdPerUniverse ==
    /\ (phase = "grid" /\ grid.ok) =>
          OneEntryPerUniverse(grid.value, add_ids_to_multiverse_grid(grid.value))
    /\ (phase = "analysis_grid" /\ grid.ok) =>
          OneEntryPerUniverse(grid.value, multiverse_dict(self, grid.value))

\* the grids of helpers.py's generate_multiverse_grid have one entry each
OneIdPerUniverseOfHelpersGrid ==
    (phase = "grid" /\ grid.ok) =>
        OneEntryPerUniverse(grid.value, add_ids_to_multiverse_grid(grid.value))

\* the snapshots of the run in its data directory
Snapshots ==
    {f \in files : f.dir = get_run_dir(self, "data") /\ f.name = snapshot_filename(self)}

\* with the snapshot in the data directory, aggregation and reconciliation
\* return what they return without it
SnapshotInvisible ==
    phase = "aggregated" =>
        /\ Cardinality(Snapshots) <= 1
        /\ glob_csv(files, get_run_dir(self, "data")) \cap Snapshots = {}
        /\ csv_listings(self, files) = csv_listings(self, files \ Snapshots)
        /\ \A csv_files \in csv_listings(self, files) :
              /\ aggregate_data(self, files, csv_files)
                    = aggregate_data(self, files \ Snapshots, csv_files)
              /\ \A hash_order \in Orders(missing_universe_ids_of(self, dimensions, files)) :
                    check_missing_universes(self, dimensions, files, csv_files, hash_order)
                       = check_missing_universes(self, dimensions, files \ Snapshots,
                                                 csv_files, hash_order)

\* the file is the snapshot of the run
IsSnapshot(f) == f.dir = get_run_dir(self, "data") /\ f.name = snapshot_filename(self)

\* every file of fs that is no snapshot is in gs as it is in fs
KeptIn(fs, gs) ==
    \A f \in fs : ~IsSnapshot(f) =>
        \E g \in gs : g.dir = f.dir /\ g.name = f.name /\ g.content = f.content

\* every row of the table a is a row of the table b
RowsIn(a, b) ==
    \A k \in 1..Len(a) : \E j \in 1..Len(b) :
        b[j].mv_universe_id = a[k].mv_universe_id /\ b[j] = a[k]

\* aggregate_data called again returns the same rows, in the order of its
\* own listing, and changes no file but the snapshot
RepeatOverwrites ==
    (phase = "aggregated" /\ phase' = "aggregated") =>
        /\ aggregated'.ok = aggregated.ok
        /\ Len(aggregated'.value) = Len(aggregated.value)
        /\ RowsIn(aggregated.value, aggregated'.value)
        /\ RowsIn(aggregated'.value, aggregated.value)
        /\ KeptIn(files, files') /\ KeptIn(files', files)

\* C28: the snapshot that aggregate_data(save=True) writes into the data
\* directory is not among the files aggregate_data reads: with it there,
\* aggregate_data and check_missing_universes return the rows and the IDs
\* they return without it, and aggregate_data called again changes nothing
\* but that one file.
C28_SnapshotNotAggregated == []SnapshotInvisible /\ [][RepeatOverwrites]_vars

\* C28 witness: three artifacts were aggregated and the snapshot is in the
\* data directory
C28_Witness ==
    /\ phase = "aggregated" /\ aggregated.ok
    /\ Len(aggregated.value) = 3
    /\ Cardinality(Snapshots) = 1
    /\ Cardinality(files) = 4

\* a step in which check_missing_universes is called
ReconciliationStep ==
    /\ phase = "constructed"
    /\ missing_info' # NotCalled
    /\ missing_info' # missing_info \/ grid' # grid

\* the grid exports and the snapshots under the output root
ExportsAndSnapshots ==
    {f \in files : \/ f.name = <<"multiverse_grid", ".json">>
                   \/ f.name[Len(f.name)] = ".gz"}

\* C29 as stated: a call of check_missing_universes leaves counter.txt,
\* every file and every directory under the output root as they are: it
\* writes no multiverse_grid.json and no snapshot, and no artifact or trace
\* is created, changed or deleted; the grid of the analysis is all it sets.
C29_ReconciliationChangesNothing ==
    /\ [](ExportsAndSnapshots = {})
    /\ [][ReconciliationStep =>
              /\ files' = files
              /\ dirs' = dirs
              /\ counter_txt' = counter_txt
              /\ self' = self]_vars

\* C29: a call of check_missing_universes leaves counter.txt and every file
\* under the output root as they are: it writes no multiverse_grid.json and
\* no snapshot, and no artifact or trace is created, changed or deleted;
\* it sets the grid of the analysis, and it makes the data directory of
\* the run, with the directories above it, where there is none.
C29_ReconciliationReadOnly ==
    /\ [](ExportsAndSnapshots = {})
    /\ [][ReconciliationStep =>
              /\ files' = files
              /\ dirs' = get_run_dir_dirs(self, "data", dirs)
              /\ counter_txt' = counter_txt
              /\ self' = self]_vars

\* C29 witness: a reconciliation has returned universes as missing, on an
\* output root that holds a counter, files of two runs and the data
\* directory of the run
C29_Witness ==
    /\ missing_info.ok
    /\ get_run_dir(self, "data") \in dirs
    /\ missing_info.value.missing_universe_ids # {}
    /\ counter_txt.exists
    /\ self.run_no = 2
    /\ \E f, g \in files : f.dir # g.dir /\ f.dir[Len(f.dir)] = g.dir[Len(g.dir)]

-----------------------------------------------------------------------------
(* The conditions specification: generate_multiverse_grid is called with   *)
(* constraints whose allowed_if or forbidden_if names only dimensions that *)
(* no configuration declares (v and w), with a number or None as the       *)
(* required value.                                                         *)

\* the mappings {w: 3}, {w: None} and {w: 3, v: None}
UnknownConditions ==
    { <<Item("w", Scalar(3))>>,
      <<Item("w", NoneValue)>>,
      <<Item("w", Scalar(3)), Item("v", NoneValue)>> }

\* the constraint {value: v, allowed_if: cond} or {value: v, forbidden_if: cond}
UnknownConstraint(v, allowed, cond) ==
    [value |-> ConstrainedValues[v],
     has_allowed_if |-> allowed, allowed_if |-> IF allowed THEN cond ELSE <<>>,
     has_forbidden_if |-> ~allowed, forbidden_if |-> IF allowed THEN <<>> ELSE cond]

\* constraints.setdefault(d, []).append(c), for a constraint c whose
\* condition names unknown dimensions
DeclareUnknownCondition ==
    /\ phase = "start"
    /\ ConstraintCount(constraints) < MaxConstraints
    /\ \E d \in ConstrainedDimensions : \E v \in 1..Len(ConstrainedValues) :
       \E allowed \in BOOLEAN : \E cond \in UnknownConditions :
          constraints' = WithConstraint(constraints, d, UnknownConstraint(v, allowed, cond))
    /\ UNCHANGED <<phase, dimensions, grid, self, universe_parameters, universe_id, counterVars, runVars, cliVars, frameVars>>

NextConditions == DeclareUnknownCondition \/ GenerateGrid

SpecConditions == InitConstraints /\ [][NextConditions]_vars

\* the condition has a pair on a dimension the universe does not have
NamesAbsentDimension(u, cond) ==
    \E p \in 1..Len(cond) : cond[p].key \notin Range(Keys(u))

\* the universe carries the value of an allowed_if constraint whose
\* condition names a dimension the universe does not have
CarriesUnsatisfiable(u, cons) ==
    \E d \in 1..Len(cons) : \E c \in 1..Len(cons[d].value) :
        LET con == cons[d].value[c]
        IN  /\ con.value = Lookup(u, cons[d].key)
            /\ con.has_allowed_if
            /\ NamesAbsentDimension(u, con.allowed_if)

\* the grid is made without error, and of the unconstrained grid it drops
\* exactly the universes that carry the value of such an allowed_if
UnknownDimensionNeverMatches ==
    (/\ phase = "grid" /\ constraints # <<>>
     /\ Range(Keys(constraints)) \subseteq Range(Keys(dimensions))) =>
        /\ grid.ok
        /\ LET full == generate_multiverse_grid(dimensions, <<>>).value
               Kept(u) == ~CarriesUnsatisfiable(u, constraints)
           IN  grid.value = SelectSeq(full, Kept)

\* C31: a condition naming a dimension absent from the universe is
\* evaluated without error as a non-match: every universe carrying the
\* value of an allowed_if constraint that names an unknown dimension is
\* dropped, and a forbidden_if constraint that names only unknown
\* dimensions drops no universe.
C31_UnknownDimensionNeverMatches == UnknownDimensionNeverMatches

\* a required value of the constraints is None
RequiresNone(cons) ==
    \E d \in 1..Len(cons) : \E c \in 1..Len(cons[d].value) :
        \/ \E p \in 1..Len(cons[d].value[c].allowed_if) :
              cons[d].value[c].allowed_if[p].value = NoneValue
        \/ \E p \in 1..Len(cons[d].value[c].forbidden_if) :
              cons[d].value[c].forbidden_if[p].value = NoneValue

\* the same when no required value is None
UnknownDimensionNeverMatchesOfValues ==
    ~RequiresNone(constraints) => UnknownDimensionNeverMatches

\* a grid was filtered by an allowed_if and by a forbidden_if on an unknown
\* dimension, neither requiring None: the first dropped universes
UnknownDimensionFiltered ==
    /\ phase = "grid" /\ grid.ok
    /\ ~RequiresNone(constraints)
    /\ \E d \in 1..Len(constraints) : \E c \in 1..Len(constraints[d].value) :
          constraints[d].value[c].has_allowed_if
    /\ \E d \in 1..Len(constraints) : \E c \in 1..Len(constraints[d].value) :
          constraints[d].value[c].has_forbidden_if
    /\ Len(grid.value) < Len(generate_multiverse_grid(dimensions, <<>>).value)

-----------------------------------------------------------------------------
(* The executor specification: the notebooks of the universes of an        *)
(* analysis are run through papermill's command line by hand and through   *)
(* its API by visit_universe, and the run is reconciled.                   *)

\* get_run_dir("notebooks") is called: the directory is made where there
\* was none
GetRunDir ==
    /\ phase = "constructed"
    /\ visiting = <<>>
    /\ dirs' = get_run_dir_dirs(self, "notebooks", dirs)
    /\ UNCHANGED <<gridVars, counterVars, files, batch, missing_info, visited, calls, visiting,
                   produced, deleted, run_was_empty, cliVars, frameVars>>

\* execute_notebook_via_cli is called by hand on the notebook of a universe,
\* with the settings that visit_universe makes and the output path it
\* makes, in a directory that exists or does not: the call makes none, and
\* the notebook's cells, when they run through, make the data directory
\* they save to
ExecuteNotebookViaCli ==
    /\ phase = "constructed"
    /\ visiting = <<>>
    /\ \E u \in Range(generate_grid(dimensions).value), on_path \in BOOLEAN, succeeds \in BOOLEAN :
          LET settings == visit_settings(self, u)
              executed == execute_notebook_via_cli(files, dirs, get_run_dir(self, "notebooks"),
                              output_filename(self, settings.universe_id), settings,
                              on_path, succeeds)
              ran == executed.ok /\ get_run_dir(self, "notebooks") \in dirs
              made == ran /\ succeeds
          IN  /\ files' = (IF executed.ok THEN executed.value ELSE files)
              /\ dirs' = (IF made THEN mkdir_parents(dirs, self.output_dir, self.run_no, "data")
                          ELSE dirs)
              /\ visited' = (IF ran THEN visited \cup {settings.universe_id} ELSE visited)
              /\ produced' = (IF made THEN produced \cup {settings.universe_id} ELSE produced)
              /\ deleted' = (IF made THEN deleted \ {settings.universe_id} ELSE deleted)
    /\ missing_info' = NotCalled
    /\ UNCHANGED <<gridVars, counterVars, batch, calls, visiting, run_was_empty, cliVars,
                   frameVars>>

NextExecutor ==
    \/ GetRunDir
    \/ ExecuteNotebookViaCli
    \/ VisitUniverse
    \/ VisitUniverseReturns
    \/ CheckMissing

SpecExecutor == InitAggregate /\ [][NextExecutor]_vars

-----------------------------------------------------------------------------
(* The grid-file specification: an analysis is built with a run number of  *)
(* the caller's, which leaves the output root as it is, a directory or     *)
(* none, and generate_grid(save) is called on it.                          *)

InitGridFile ==
    /\ GridUnused
    /\ RunUnused
    /\ counter_txt \in {Absent, NoDirectory}
    /\ counter0 = counter_txt
    /\ history = <<>>
    /\ proc = <<>>

\* MultiverseAnalysis(dimensions, run_no=n, output_dir=...): read_counter
\* is not called, and output_dir is not made
ConstructGiven ==
    /\ phase = "start"
    /\ \E cfg \in RunConfigurations, n \in ExplicitRunNumbers, new_run \in BOOLEAN :
          LET resolved == init_run_no(Given(n), counter_txt, new_run)
          IN  /\ counter_txt' = resolved.file
              /\ self' = TheAnalysis(resolved.run_no.value)
              /\ dimensions' = cfg
    /\ phase' = "constructed"
    /\ UNCHANGED <<constraints, grid, universe_parameters, universe_id, counter0, history,
                   proc, runVars, cliVars, frameVars>>

\* generate_grid(save)
GenerateGridSave ==
    /\ phase = "constructed"
    /\ \E save \in BOOLEAN :
          /\ grid' = generate_grid_saving(dimensions, save, counter_txt.dir)
          /\ files' = generate_grid_files(self, dimensions, files, save, counter_txt.dir)
    /\ phase' = "grid"
    /\ UNCHANGED <<dimensions, constraints, self, universe_parameters, universe_id,
                   counterVars, dirs, batch, missing_info, visited, calls, visiting, produced, deleted,
                   run_was_empty, cliVars, frameVars>>

NextGridFile == ConstructGiven \/ GenerateGridSave

SpecGridFile == InitGridFile /\ [][NextGridFile]_vars

====
